---- MODULE Spec2Model ----
(***************************************************************************)
(* Clasificador de movimientos bancarios: the Streamlit classifier of      *)
(* src/unnamed/part_000 (first listing, lines 1-300).                      *)
(*                                                                         *)
(* Text is a sequence of characters, each a string, so that strip, lower,  *)
(* replace, substring search and the slug are computed character by        *)
(* character as the Python code computes them.  A character outside ASCII  *)
(* is written with its ASCII letter and a mark: "o'" is o with an acute    *)
(* accent, "A~" is A with a tilde, "^3" is the superscript three.  A       *)
(* number is an exact decimal [m, e] standing for m / 10^e, or NaN; the    *)
(* binary rounding of a float is not modelled.                             *)
(***************************************************************************)
EXTENDS Integers, Sequences, FiniteSets, TLC

VARIABLES
    num_pc,         \* a parser on one cell: "pick", "parse", "done" or "dated"
    num_in,         \* the cell handed to _to_number or _to_datetime
    num_out,        \* the number _to_number returned for it
    date_out,       \* the date _to_datetime returned for it
    cell_error,     \* an exception came out of the parse of the cell
    col_pc,         \* guess_columns on one header list: "pick", "guess", "again", "done"
    col_headers,    \* the headers of the table, in input order
    col_roles,      \* what guess_columns returned for them
    col_headers2,   \* the same headers in another order
    col_roles2,     \* what guess_columns returned for that order
    pc,             \* position of the script run (UI) or of process_dataframe
    widget,         \* the two keyword text inputs as the user last left them
    kw_input,       \* what st.text_input returned to the current run
    session_state,  \* st.session_state: kw_comisiones and kw_impuestos
    uploaded,       \* the uploaded file, or none
    rerun,          \* a widget changed: a rerun of the script is pending
    df,             \* the table read from the file
    roles,          \* guess_columns(df)
    importe,        \* detect_direction_and_amount: amount per row
    direction,      \* detect_direction_and_amount: direction per row
    kw_read,        \* the keyword lists categorize_rows read
    sheets,         \* sh1..sh5 of build_output_sheets
    widths,         \* the column widths to_excel_bytes has set, sheet by sheet
    shown,          \* what the page shows: error, success, download
    app_pc,         \* position of the run of src/app.py
    uploaded_file,  \* src/app.py: the uploaded file, or none
    app_df,         \* src/app.py: the table read, its headers normalised
    app_tipo,       \* src/app.py: df["tipo"], the label of each row
    app_sheets,     \* src/app.py: the five tables written to the workbook
    app_shown       \* src/app.py: what the page shows

numVars == <<num_pc, num_in, num_out, date_out, cell_error>>

colVars == <<col_pc, col_headers, col_roles, col_headers2, col_roles2>>

uiVars == <<widget, kw_input, uploaded, rerun, shown>>

appVars == <<app_pc, uploaded_file, app_df, app_tipo, app_sheets, app_shown>>

procVars == <<pc, session_state, df, roles, importe, direction, kw_read, sheets, widths>>

vars == <<num_pc, num_in, num_out, date_out, cell_error, col_pc, col_headers, col_roles, col_headers2,
          col_roles2, pc, widget, kw_input, session_state, uploaded, rerun, df,
          roles, importe, direction, kw_read, sheets, widths, shown, app_pc, uploaded_file, app_df, app_tipo,
          app_sheets, app_shown>>

\* ------------------------------------------------------------------ bounds

\* Longest text cell over NumAlphabet enumerated exhaustively for _to_number.
MaxNumLen == 6

\* Most headers of a table enumerated for guess_columns.
MaxCols == 3

\* Most rows of a table enumerated for process_dataframe.
MaxRows == 2

\* ------------------------------------------------------------------ text

Digits == {"0", "1", "2", "3", "4", "5", "6", "7", "8", "9"}

DigitVal(c) ==
    CASE c = "0" -> 0 [] c = "1" -> 1 [] c = "2" -> 2 [] c = "3" -> 3
      [] c = "4" -> 4 [] c = "5" -> 5 [] c = "6" -> 6 [] c = "7" -> 7
      [] c = "8" -> 8 [] c = "9" -> 9

\* str.strip() with no argument removes leading and trailing whitespace.
IsSpace(c) == c \in {" "}

SetMin(S) == CHOOSE m \in S : \A k \in S : m <= k

SetMax(S) == CHOOSE m \in S : \A k \in S : m >= k

Strip(s) ==
    LET keep == {i \in 1..Len(s) : ~IsSpace(s[i])}
    IN  IF keep = {} THEN <<>> ELSE SubSeq(s, SetMin(keep), SetMax(keep))

\* The sequence f as a tuple of its evaluated elements.
Tup(f) == f \o <<>>

\* str.replace(old, new) for a one-character old and a text new.
RECURSIVE Replace(_, _, _)
Replace(s, old, new) ==
    IF s = <<>> THEN <<>>
    ELSE (IF Head(s) = old THEN new ELSE <<Head(s)>>) \o Replace(Tail(s), old, new)

\* Python's "k in t" on strings.
Contains(t, k) ==
    \E i \in 0..(Len(t) - Len(k)) : SubSeq(t, i + 1, i + Len(k)) = k

\* All texts over alphabet A of length at most n.
AllTexts(A, n) == UNION {[1..k -> A] : k \in 0..n}

\* ---------------------------------------------------------------- numbers

RECURSIVE Pow10(_)
Pow10(n) == IF n = 0 THEN 1 ELSE 10 * Pow10(n - 1)

\* The decimal m / 10^e in lowest terms of e, so that equal values are equal
\* records.
RECURSIVE Dec(_, _)
Dec(m, e) ==
    IF e > 0 /\ m % 10 = 0 THEN Dec(m \div 10, e - 1)
    ELSE [nan |-> FALSE, m |-> m, e |-> e]

Zero == Dec(0, 0)

NaN == [nan |-> TRUE, m |-> 0, e |-> 0]

\* a - b on decimals (credito - debito); NaN propagates.
DecSub(a, b) ==
    IF a.nan \/ b.nan THEN NaN
    ELSE LET e == IF a.e >= b.e THEN a.e ELSE b.e
         IN  Dec(a.m * Pow10(e - a.e) - b.m * Pow10(e - b.e), e)

DecSign(a) == IF a.nan THEN 0 ELSE IF a.m > 0 THEN 1 ELSE IF a.m < 0 THEN -1 ELSE 0

RECURSIVE DigitsVal(_)
DigitsVal(s) ==
    IF s = <<>> THEN 0
    ELSE 10 * DigitsVal(SubSeq(s, 1, Len(s) - 1)) + DigitVal(s[Len(s)])

IsDigit(c) == c \in Digits

\* Python's float(s) on a text of digits, signs, dots and other characters:
\* an optional sign, then digits with at most one dot and at least one digit.
\* (Exponents, underscores, "inf" and "nan" are outside the alphabet used.)
PyFloat(s) ==
    LET signed == s # <<>> /\ Head(s) \in {"-", "+"}
        body   == IF signed THEN Tail(s) ELSE s
        dots   == {i \in 1..Len(body) : body[i] = "."}
        ok     == /\ \A i \in 1..Len(body) : IsDigit(body[i]) \/ body[i] = "."
                  /\ \E i \in 1..Len(body) : IsDigit(body[i])
                  /\ Cardinality(dots) <= 1
        m      == DigitsVal(SelectSeq(body, IsDigit))
        e      == IF dots = {} THEN 0 ELSE Len(body) - SetMin(dots)
    IN  IF ok THEN [ok |-> TRUE, v |-> Dec(IF Head(s) = "-" THEN 0 - m ELSE m, e)]
        ELSE [ok |-> FALSE, v |-> NaN]

\* pd.to_numeric(s, errors="coerce") on one text: the number, or NaN.
to_numeric_coerce(s) == IF PyFloat(s).ok THEN PyFloat(s).v ELSE NaN

\* The pattern anchored at the end of the text, r"\d+,\d{3}$": the groups must
\* close the text.
re_search_thousands_at_end(s) ==
    /\ Len(s) >= 5
    /\ IsDigit(s[Len(s) - 4]) /\ s[Len(s) - 3] = ","
    /\ IsDigit(s[Len(s) - 2]) /\ IsDigit(s[Len(s) - 1]) /\ IsDigit(s[Len(s)])

\* re.search(r"\d+,\d{3}", s): a digit, a comma and three digits, anywhere.
re_search_thousands(s) ==
    \E i \in 1..Len(s) :
        /\ i + 4 <= Len(s)
        /\ IsDigit(s[i]) /\ s[i + 1] = ","
        /\ IsDigit(s[i + 2]) /\ IsDigit(s[i + 3]) /\ IsDigit(s[i + 4])

\* A cell of the input table: missing, a number, or text.
NaNCell == [t |-> "nan", v |-> Zero, s |-> <<>>]

NumCell(d) == [t |-> "num", v |-> d, s |-> <<>>]

StrCell(s) == [t |-> "str", v |-> Zero, s |-> s]

\* The separator rule of parse_num applied to a text without spaces.
separators(s) ==
    IF re_search_thousands(s) /\ ~Contains(s, <<".">>)
    THEN Replace(s, ",", <<>>)
    ELSE Replace(Replace(s, ".", <<>>), ",", <<".">>)

\* How a call ends: it returns v, or an exception comes out of it.
Returned(v) == [raised |-> FALSE, v |-> v]

Raised(v) == [raised |-> TRUE, v |-> v]

\* No handler: the exception of the body goes on to the caller.
Propagate(body, handler) == body

\* try: body / except Exception: handler.
Except(body, handler) == IF body.raised THEN handler ELSE body

\* float(s): the number, or ValueError.
float_call(s) == IF PyFloat(s).ok THEN Returned(PyFloat(s).v) ELSE Raised(NaN)

\* parse_num with its two nested try blocks (lines 55-60).
parse_num_call(x) ==
    IF x.t = "nan" THEN Returned(Zero)
    ELSE IF x.t = "num" THEN Returned(x.v)
    ELSE LET s == separators(Replace(x.s, " ", <<>>))
         IN  Except(float_call(s),
                    Except(Returned(to_numeric_coerce(s)), Returned(Zero)))

parse_num(x) == parse_num_call(x).v

fillna(v, d) == IF v.nan THEN d ELSE v

\* _to_number on one cell of the series.
_to_number(x) == fillna(parse_num(x), Zero)

\* ------------------------------------------------------------- characters

UpperChars ==
    <<"A", "B", "C", "D", "E", "F", "G", "H", "I", "J", "K", "L", "M", "N", "O",
      "P", "Q", "R", "S", "T", "U", "V", "W", "X", "Y", "Z", "A~", "E'", "O'">>

LowerChars ==
    <<"a", "b", "c", "d", "e", "f", "g", "h", "i", "j", "k", "l", "m", "n", "o",
      "p", "q", "r", "s", "t", "u", "v", "w", "x", "y", "z", "a~", "e'", "o'">>

\* str.lower() on one character.
LowerChar(c) ==
    IF \E i \in 1..Len(UpperChars) : UpperChars[i] = c
    THEN LowerChars[CHOOSE i \in 1..Len(UpperChars) : UpperChars[i] = c]
    ELSE c

Lower(s) == Tup([i \in 1..Len(s) |-> LowerChar(s[i])])

AsciiLetters ==
    {UpperChars[i] : i \in 1..26} \cup {LowerChars[i] : i \in 1..26}

IsAlnum(c) == c \in AsciiLetters \cup Digits

\* The characters outside ASCII that the inputs use, each with what
\* unicodedata.normalize("NFKD", c).encode("ascii", "ignore") leaves of it:
\* the base letter of an accented letter, the digit of a superscript, nothing
\* of the degree sign.
NonAscii ==
    << <<"a~", <<"a">>>>, <<"A~", <<"A">>>>, <<"e'", <<"e">>>>, <<"E'", <<"E">>>>,
       <<"o'", <<"o">>>>, <<"O'", <<"O">>>>, <<"^3", <<"3">>>>, <<"deg", <<>> >> >>

nfkd_ascii(c) ==
    IF \E i \in 1..Len(NonAscii) : NonAscii[i][1] = c
    THEN NonAscii[CHOOSE i \in 1..Len(NonAscii) : NonAscii[i][1] = c][2]
    ELSE <<c>>

RECURSIVE Normalize(_)
Normalize(s) == IF s = <<>> THEN <<>> ELSE nfkd_ascii(Head(s)) \o Normalize(Tail(s))

\* re.sub(r"[^a-zA-Z0-9]+", "_", s): every run of other characters becomes "_".
RECURSIVE sub_non_alnum(_)
sub_non_alnum(s) ==
    IF s = <<>> THEN <<>>
    ELSE IF IsAlnum(Head(s)) THEN <<Head(s)>> \o sub_non_alnum(Tail(s))
    ELSE LET rest == Tail(s)
             next == {i \in 1..Len(rest) : IsAlnum(rest[i])}
         IN  IF next = {} THEN <<"_">>
             ELSE <<"_">> \o sub_non_alnum(SubSeq(rest, SetMin(next), Len(rest)))

\* str.strip(ch) for one character ch.
StripChar(s, ch) ==
    LET keep == {i \in 1..Len(s) : s[i] # ch}
    IN  IF keep = {} THEN <<>> ELSE SubSeq(s, SetMin(keep), SetMax(keep))

_slug(s) == StripChar(sub_non_alnum(Lower(Normalize(Strip(s)))), "_")

\* ---------------------------------------------------------- guess_columns

None == [some |-> FALSE, name |-> <<>>]

Some(h) == [some |-> TRUE, name |-> h]

\* Python's truth value of a column name that may be None.
Truthy(c) == c.some /\ c.name # <<>>

fecha_cands ==
    << <<"f", "e", "c", "h", "a">>, <<"f", "e", "c", "h", "a", "_", "o", "p", "e", "r", "a", "c", "i", "o", "n">>, <<"f", "e", "c", "h", "a", "_", "m", "o", "v">>, <<"f", "e", "c", "h", "a", "_", "d", "e", "b", "i", "t", "o">>,
       <<"f", "e", "c", "h", "a", "_", "c", "r", "e", "d", "i", "t", "o">>, <<"d", "a", "t", "e">>, <<"p", "o", "s", "t", "i", "n", "g", "_", "d", "a", "t", "e">> >>

ref_cands ==
    << <<"r", "e", "f", "e", "r", "e", "n", "c", "i", "a">>, <<"n", "_", "o", "p", "e", "r", "a", "c", "i", "o", "n">>, <<"n", "r", "o", "_", "o", "p", "e", "r", "a", "c", "i", "o", "n">>, <<"n", "u", "m", "e", "r", "o", "_", "o", "p", "e", "r", "a", "c", "i", "o", "n">>,
       <<"n", "_", "r", "e", "f", "e", "r", "e", "n", "c", "i", "a">>, <<"d", "e", "t", "a", "l", "l", "e">>, <<"d", "e", "s", "c", "r", "i", "p", "c", "i", "o", "n">>, <<"c", "o", "n", "c", "e", "p", "t", "o">>, <<"g", "l", "o", "s", "a">>,
       <<"r", "e", "f", "e", "r", "e", "n", "c", "i", "a", "_", "b", "a", "n", "c", "a", "r", "i", "a">>, <<"r", "e", "f">>, <<"m", "e", "m", "o">> >>

nombre_cands ==
    << <<"n", "o", "m", "b", "r", "e">>, <<"n", "o", "m", "b", "r", "e", "_", "p", "a", "g", "a", "d", "o", "r">>, <<"p", "a", "g", "a", "d", "o", "r">>, <<"c", "l", "i", "e", "n", "t", "e">>, <<"e", "m", "i", "s", "o", "r">>,
       <<"b", "e", "n", "e", "f", "i", "c", "i", "a", "r", "i", "o">>, <<"p", "r", "o", "v", "e", "e", "d", "o", "r">>, <<"t", "i", "t", "u", "l", "a", "r">>, <<"c", "o", "n", "t", "r", "a", "p", "a", "r", "t", "e">>,
       <<"r", "a", "z", "o", "n", "_", "s", "o", "c", "i", "a", "l">> >>

cuit_cands ==
    << <<"c", "u", "i", "t">>, <<"c", "u", "i", "l">>, <<"d", "n", "i">>, <<"t", "a", "x", "_", "i", "d">>, <<"d", "o", "c">>, <<"d", "o", "c", "u", "m", "e", "n", "t", "o">>, <<"i", "d", "_", "f", "i", "s", "c", "a", "l">> >>

detalle_cands ==
    << <<"d", "e", "t", "a", "l", "l", "e">>, <<"d", "e", "s", "c", "r", "i", "p", "c", "i", "o", "n">>, <<"c", "o", "n", "c", "e", "p", "t", "o">>, <<"g", "l", "o", "s", "a">>, <<"r", "e", "f", "e", "r", "e", "n", "c", "i", "a">>,
       <<"o", "b", "s", "e", "r", "v", "a", "c", "i", "o", "n", "e", "s">> >>

credito_cands ==
    << <<"c", "r", "e", "d", "i", "t", "o">>, <<"c", "r", "e", "d", "i", "t", "o", "s">>, <<"h", "a", "b", "e", "r">>, <<"e", "n", "t", "r", "a", "d", "a">>, <<"i", "n", "g", "r", "e", "s", "o">>,
       <<"a", "c", "r", "e", "d", "i", "t", "a", "c", "i", "o", "n">>, <<"a", "m", "o", "u", "n", "t", "_", "i", "n">>, <<"i", "n">> >>

debito_cands ==
    << <<"d", "e", "b", "i", "t", "o">>, <<"d", "e", "b", "i", "t", "o", "s">>, <<"d", "e", "b", "e">>, <<"s", "a", "l", "i", "d", "a">>, <<"e", "g", "r", "e", "s", "o">>, <<"e", "x", "t", "r", "a", "c", "c", "i", "o", "n">>,
       <<"a", "m", "o", "u", "n", "t", "_", "o", "u", "t">>, <<"o", "u", "t">> >>

importe_cands ==
    << <<"i", "m", "p", "o", "r", "t", "e">>, <<"m", "o", "n", "t", "o">>, <<"i", "m", "p", "o", "r", "t", "e", "_", "t", "o", "t", "a", "l">>, <<"i", "m", "p", "o", "r", "t", "e", "_", "n", "e", "t", "o">>,
       <<"i", "m", "p", "o", "r", "t", "e", "_", "b", "r", "u", "t", "o">>, <<"i", "m", "p", "o", "r", "t", "e", "_", "m", "o", "v", "i", "m", "i", "e", "n", "t", "o">>, <<"m", "o", "n", "t", "o", "_", "t", "o", "t", "a", "l">>, <<"a", "m", "o", "u", "n", "t">>,
       <<"t", "r", "a", "n", "s", "a", "c", "t", "i", "o", "n", "_", "a", "m", "o", "u", "n", "t">> >>

tipo_cands ==
    << <<"t", "i", "p", "o">>, <<"t", "i", "p", "o", "_", "m", "o", "v", "i", "m", "i", "e", "n", "t", "o">>, <<"o", "p", "e", "r", "a", "c", "i", "o", "n">>, <<"m", "o", "v", "i", "m", "i", "e", "n", "t", "o">>, <<"c", "r", "_", "d", "b">>,
       <<"d", "e", "b", "e", "_", "h", "a", "b", "e", "r">> >>

\* df.columns = [str(c).strip() for c in df.columns]
strip_columns(cols) == Tup([i \in 1..Len(cols) |-> Strip(cols[i])])

\* The slug of every header, in column order.
Slugs(cols) == Tup([i \in 1..Len(cols) |-> _slug(cols[i])])

\* The dict when the first header with a slug is kept.
slug_to_orig_first(cols, slugs) ==
    [k \in {slugs[i] : i \in 1..Len(cols)} |->
        cols[SetMin({i \in 1..Len(cols) : slugs[i] = k})]]

\* slug_to_orig = { _slug(c): c for c in df.columns }: given the slugs of the
\* headers, the dict as a function.  A later header with the same slug
\* overwrites the earlier one.
slug_to_orig(cols, slugs) ==
    [k \in {slugs[i] : i \in 1..Len(cols)} |->
        cols[SetMax({i \in 1..Len(cols) : slugs[i] = k})]]

\* find without its early return: the last candidate present wins.
find_last(cands, dict) ==
    LET hits == {k \in 1..Len(cands) : cands[k] \in DOMAIN dict}
    IN  IF hits = {} THEN None ELSE Some(dict[cands[SetMax(hits)]])

\* find (lines 190-194): the first candidate that is a key of the dict.
RECURSIVE find(_, _)
find(cands, dict) ==
    IF cands = <<>> THEN None
    ELSE IF Head(cands) \in DOMAIN dict THEN Some(dict[Head(cands)])
    ELSE find(Tail(cands), dict)

\* guess_columns without lines 204-205: an unmatched description stays None.
guess_columns_without_fallback(cols) ==
    LET dict == slug_to_orig(cols, Slugs(cols))
    IN  [ fecha   |-> find(fecha_cands, dict),
          ref     |-> find(ref_cands, dict),
          nombre  |-> find(nombre_cands, dict),
          cuit    |-> find(cuit_cands, dict),
          detalle |-> find(detalle_cands, dict),
          importe |-> find(importe_cands, dict),
          credito |-> find(credito_cands, dict),
          debito  |-> find(debito_cands, dict),
          tipo    |-> find(tipo_cands, dict) ]

guess_columns(cols) ==
    LET dict    == slug_to_orig(cols, Slugs(cols))
        ref     == find(ref_cands, dict)
        detalle == find(detalle_cands, dict)
    IN  [ fecha   |-> find(fecha_cands, dict),
          ref     |-> ref,
          nombre  |-> find(nombre_cands, dict),
          cuit    |-> find(cuit_cands, dict),
          detalle |-> IF detalle # None THEN detalle
                      ELSE IF Truthy(ref) THEN ref
                      ELSE IF Len(cols) > 0 THEN Some(cols[1])
                      ELSE None,
          importe |-> find(importe_cands, dict),
          credito |-> find(credito_cands, dict),
          debito  |-> find(debito_cands, dict),
          tipo    |-> find(tipo_cands, dict) ]

\* The candidate list of each role guess_columns resolves.
RoleNames ==
    {"fecha", "ref", "nombre", "cuit", "detalle", "importe", "credito", "debito",
     "tipo"}

Cands(role) ==
    CASE role = "fecha" -> fecha_cands     [] role = "ref" -> ref_cands
      [] role = "nombre" -> nombre_cands   [] role = "cuit" -> cuit_cands
      [] role = "detalle" -> detalle_cands [] role = "importe" -> importe_cands
      [] role = "credito" -> credito_cands [] role = "debito" -> debito_cands
      [] role = "tipo" -> tipo_cands

\* ------------------------------------------------------------------ cells

DigitChars == <<"0", "1", "2", "3", "4", "5", "6", "7", "8", "9">>

RECURSIVE NatToText(_)
NatToText(n) ==
    IF n < 10 THEN <<DigitChars[n + 1]>>
    ELSE NatToText(n \div 10) \o <<DigitChars[(n % 10) + 1]>>

\* The last w digits of n, with leading zeros.
RECURSIVE FracToText(_, _)
FracToText(n, w) ==
    IF w = 0 THEN <<>> ELSE FracToText(n \div 10, w - 1) \o <<DigitChars[(n % 10) + 1]>>

\* str() of a float of moderate size: "150.0", "-50.5", "nan".
FloatToText(d) ==
    IF d.nan THEN <<"n", "a", "n">>
    ELSE LET a == IF d.m < 0 THEN 0 - d.m ELSE d.m
             p == Pow10(d.e)
         IN  (IF d.m < 0 THEN <<"-">> ELSE <<>>)
                 \o NatToText(a \div p) \o <<".">>
                 \o (IF d.e = 0 THEN <<"0">> ELSE FracToText(a % p, d.e))

\* A timestamp cell, as a spreadsheet holds a date.
DateCell(ymd) == [t |-> "ts", v |-> Dec(ymd, 0), s |-> <<>>]

\* str() of a timestamp at midnight: "2024-01-31 00:00:00".
TimestampToText(ymd) ==
    FracToText(ymd \div 10000, 4) \o <<"-">> \o FracToText((ymd \div 100) % 100, 2)
        \o <<"-">> \o FracToText(ymd % 100, 2) \o <<" ", "0", "0", ":", "0", "0", ":", "0", "0">>

\* Series.astype(str) on one cell: a missing cell becomes the text "nan".
PyStr(x) ==
    CASE x.t = "nan" -> <<"n", "a", "n">>
      [] x.t = "str" -> x.s
      [] x.t = "num" -> FloatToText(x.v)
      [] x.t = "ts"  -> TimestampToText(x.v.m)

\* The order of the characters used, by code point.
CharOrder ==
    <<" ", "(", ")", "+", ",", "-", ".", "/", "0", "1", "2", "3", "4", "5", "6",
      "7", "8", "9", ":", "A", "B", "C", "D", "E", "F", "G", "H", "I", "J", "K", "L",
      "M", "N", "O", "P", "Q", "R", "S", "T", "U", "V", "W", "X", "Y", "Z", "_",
      "a", "b", "c", "d", "e", "f", "g", "h", "i", "j", "k", "l", "m", "n", "o",
      "p", "q", "r", "s", "t", "u", "v", "w", "x", "y", "z", "deg", "^3", "A~",
      "E'", "O'", "a~", "e'", "o'">>

CharCode(c) == CHOOSE i \in 1..Len(CharOrder) : CharOrder[i] = c

\* a < b on Python strings.
RECURSIVE TextLess(_, _)
TextLess(a, b) ==
    IF b = <<>> THEN FALSE
    ELSE IF a = <<>> THEN TRUE
    ELSE IF Head(a) = Head(b) THEN TextLess(Tail(a), Tail(b))
    ELSE CharCode(Head(a)) < CharCode(Head(b))

\* ------------------------------------------------------------------ dates

NaT == [nat |-> TRUE, ymd |-> 0]

Date(y, m, d) == [nat |-> FALSE, ymd |-> y * 10000 + m * 100 + d]

IsLeap(y) == (y % 4 = 0 /\ y % 100 # 0) \/ y % 400 = 0

DaysInMonth(y, m) ==
    IF m = 2 THEN (IF IsLeap(y) THEN 29 ELSE 28)
    ELSE IF m \in {4, 6, 9, 11} THEN 30 ELSE 31

ValidDate(y, m, d) == y >= 1 /\ m \in 1..12 /\ d >= 1 /\ d <= DaysInMonth(y, m)

AllDigits(s) == s # <<>> /\ \A i \in 1..Len(s) : IsDigit(s[i])

\* The date pd.to_datetime(s, dayfirst=True) finds in a stripped text, NaT when
\* it finds none.  Texts of three numeric fields separated by "/" or "-" are
\* modelled: year first (ISO), or a four-digit year last with the day before
\* the month, and the month before the day when only that order is a date.
\* Any other text is not a date.
parse_date_text(s) ==
    LET seps == {i \in 1..Len(s) : s[i] \in {"/", "-"}}
    IN  IF Cardinality(seps) # 2 THEN NaT
        ELSE LET p1 == SetMin(seps)
                 p2 == SetMax(seps)
                 f1 == SubSeq(s, 1, p1 - 1)
                 f2 == SubSeq(s, p1 + 1, p2 - 1)
                 f3 == SubSeq(s, p2 + 1, Len(s))
                 a  == DigitsVal(f1)
                 b  == DigitsVal(f2)
                 c  == DigitsVal(f3)
             IN  IF ~(AllDigits(f1) /\ AllDigits(f2) /\ AllDigits(f3)) \/ s[p1] # s[p2]
                 THEN NaT
                 ELSE IF Len(f1) = 4 /\ Len(f2) <= 2 /\ Len(f3) <= 2
                 THEN (IF ValidDate(a, b, c) THEN Date(a, b, c) ELSE NaT)
                 ELSE IF Len(f3) = 4 /\ Len(f1) <= 2 /\ Len(f2) <= 2
                 THEN (IF ValidDate(c, b, a) THEN Date(c, b, a)
                       ELSE IF ValidDate(c, a, b) THEN Date(c, a, b)
                       ELSE NaT)
                 ELSE NaT

\* pd.to_datetime(s, dayfirst=True, errors="raise"): the date, or an exception.
to_datetime_dayfirst(s) ==
    IF parse_date_text(s).nat THEN Raised(NaT) ELSE Returned(parse_date_text(s))

\* The formats parse_one tries after the plain parse (line 33): the order of
\* the fields, their separator, and whether a time of day follows.
formats ==
    << [order |-> "dmy", sep |-> "/", time |-> FALSE],
       [order |-> "ymd", sep |-> "-", time |-> FALSE],
       [order |-> "dmy", sep |-> "-", time |-> FALSE],
       [order |-> "mdy", sep |-> "/", time |-> FALSE],
       [order |-> "dmy", sep |-> "/", time |-> TRUE],
       [order |-> "ymd", sep |-> "-", time |-> TRUE] >>

\* The fields of s between the occurrences of sep.
RECURSIVE Fields(_, _)
Fields(s, sep) ==
    LET at == {i \in 1..Len(s) : s[i] = sep}
    IN  IF at = {} THEN <<s>>
        ELSE <<SubSeq(s, 1, SetMin(at) - 1)>> \o Fields(SubSeq(s, SetMin(at) + 1, Len(s)), sep)

\* A field of one or two digits, as %d, %m, %H, %M and %S take it.
ShortField(f) == AllDigits(f) /\ Len(f) <= 2

\* The date of a text in the order and with the separator of a format.
date_fields(s, order, sep) ==
    LET f == Fields(s, sep)
        y == IF order = "ymd" THEN 1 ELSE 3
        m == IF order = "mdy" THEN 1 ELSE 2
        d == IF order = "dmy" THEN 1 ELSE IF order = "mdy" THEN 2 ELSE 3
    IN  IF /\ Len(f) = 3
           /\ AllDigits(f[y]) /\ Len(f[y]) = 4
           /\ ShortField(f[m]) /\ ShortField(f[d])
           /\ ValidDate(DigitsVal(f[y]), DigitsVal(f[m]), DigitsVal(f[d]))
        THEN Date(DigitsVal(f[y]), DigitsVal(f[m]), DigitsVal(f[d]))
        ELSE NaT

\* %H:%M:%S.
time_fields(s) ==
    LET f == Fields(s, ":")
    IN  /\ Len(f) = 3
        /\ ShortField(f[1]) /\ ShortField(f[2]) /\ ShortField(f[3])
        /\ DigitsVal(f[1]) < 24 /\ DigitsVal(f[2]) < 60 /\ DigitsVal(f[3]) < 62

\* pd.to_datetime(s, format=fmt, dayfirst=True, errors="raise"): the day of the
\* timestamp, or an exception when the text is not in the format.
to_datetime_format(s, fmt) ==
    LET sp   == {i \in 1..Len(s) : s[i] = " "}
        day  == IF fmt.time /\ sp # {} THEN SubSeq(s, 1, SetMin(sp) - 1) ELSE s
        hour == IF fmt.time /\ sp # {} THEN SubSeq(s, SetMin(sp) + 1, Len(s)) ELSE <<>>
        date == date_fields(day, fmt.order, fmt.sep)
    IN  IF date.nat \/ (fmt.time /\ ~time_fields(hour)) THEN Raised(NaT)
        ELSE Returned(date)

\* The loop over the formats: the first that parses returns, an exception goes
\* on to the next format (lines 34-37), and NaT is returned when none is left.
RECURSIVE try_formats(_, _)
try_formats(s, fmts) ==
    IF fmts = <<>> THEN Returned(NaT)
    ELSE Except(to_datetime_format(s, Head(fmts)), try_formats(s, Tail(fmts)))

\* parse_one of _to_datetime, on one cell: how the call ends.
parse_one_call(x) ==
    IF x.t = "nan" THEN Returned(NaT)
    ELSE IF x.t = "ts" THEN Returned([nat |-> FALSE, ymd |-> x.v.m])
    ELSE LET s == Strip(PyStr(x))
         IN  Except(to_datetime_dayfirst(s), try_formats(s, formats))

parse_one(x) == parse_one_call(x).v

\* ------------------------------------------------------------ the table

\* df[col][r] for a resolved column col.
At(d, r, col) ==
    d.rows[r][CHOOSE i \in 1..Len(d.cols) : d.cols[i] = col.name]

NRows(d) == Len(d.rows)

\* ------------------------------------------- detect_direction_and_amount

in_keywords ==
    << <<"c", "r", "e", "d", "i", "t", "o">>, <<"c", "r">>, <<"i", "n", "g", "r", "e", "s", "o">>, <<"a", "b", "o", "n", "o">>, <<"d", "e", "p", "o", "s", "i", "t", "o">>, <<"d", "e", "p">>, <<"a", "c", "r", "e", "d">> >>

out_keywords ==
    << <<"d", "e", "b", "i", "t", "o">>, <<"d", "b">>, <<"e", "g", "r", "e", "s", "o">>, <<"p", "a", "g", "o">>, <<"t", "r", "a", "n", "s", "f", "e", "r", "e", "n", "c", "i", "a", "_", "s", "a", "l", "i", "e", "n", "t", "e">>,
       <<"e", "x", "t", "r", "a", "c", "c", "i", "o", "n">>, <<"c", "h", "e", "q", "u", "e">> >>

\* any(k in t for k in kws)
AnyIn(t, kws) == \E i \in 1..Len(kws) : Contains(t, kws[i])

\* The two keyword groups tested the other way round.
type_direction_out_first(t) ==
    IF AnyIn(t, out_keywords) THEN "out"
    ELSE IF AnyIn(t, in_keywords) THEN "in"
    ELSE "zero"

\* The lambda of line 76, on the lower-cased type text.
type_direction(t) ==
    IF AnyIn(t, in_keywords) THEN "in"
    ELSE IF AnyIn(t, out_keywords) THEN "out"
    ELSE "zero"

\* The sign convention the other way round: a positive amount is a payment.
sign_based_reversed(v) ==
    IF DecSign(v) > 0 THEN "out" ELSE IF DecSign(v) < 0 THEN "in" ELSE "zero"

\* sign_based (line 79), on one amount.
sign_based(v) ==
    IF DecSign(v) > 0 THEN "in" ELSE IF DecSign(v) < 0 THEN "out" ELSE "zero"

\* The mask the other way round: the sign decides, the type text only when the
\* amount is zero.
mask_sign_first(dir, sign) == IF sign = "zero" THEN dir ELSE sign

\* direction.mask(direction == "zero", sign_based), on one row.
mask_zero(dir, sign) == IF dir = "zero" THEN sign ELSE dir

\* A row's amount when the amount column is looked at before the credit and
\* debit columns.
amount_of_importe_first(d, r, col_importe, col_credito, col_debito) ==
    IF col_importe # None THEN _to_number(At(d, r, col_importe))
    ELSE IF Truthy(col_credito) /\ Truthy(col_debito)
    THEN DecSub(_to_number(At(d, r, col_credito)), _to_number(At(d, r, col_debito)))
    ELSE Zero

\* A row's amount when the last column stands in for a missing amount column,
\* as the first column stands in for a missing description.
amount_of_last_column(d, r, col_importe, col_credito, col_debito) ==
    IF Truthy(col_credito) /\ Truthy(col_debito)
    THEN DecSub(_to_number(At(d, r, col_credito)), _to_number(At(d, r, col_debito)))
    ELSE IF col_importe # None THEN _to_number(At(d, r, col_importe))
    ELSE IF d.cols # <<>> THEN _to_number(d.rows[r][Len(d.cols)])
    ELSE Zero

\* The amount of row r: credit minus debit, or the amount column, or 0.0.
amount_of(d, r, col_importe, col_credito, col_debito) ==
    IF Truthy(col_credito) /\ Truthy(col_debito)
    THEN DecSub(_to_number(At(d, r, col_credito)), _to_number(At(d, r, col_debito)))
    ELSE IF col_importe # None THEN _to_number(At(d, r, col_importe))
    ELSE Zero

detect_direction_and_amount(d, col_importe, col_credito, col_debito, col_tipo) ==
    LET imp == Tup([r \in 1..NRows(d) |->
                    amount_of(d, r, col_importe, col_credito, col_debito)])
        typ == Tup([r \in 1..NRows(d) |->
                    IF Truthy(col_tipo)
                    THEN type_direction(Lower(PyStr(At(d, r, col_tipo))))
                    ELSE "zero"])
    IN  [ importe   |-> imp,
          direction |-> Tup([r \in 1..NRows(d) |-> mask_zero(typ[r], sign_based(imp[r]))]) ]

\* -------------------------------------------------------- categorize_rows

default_kw_comisiones ==
    << <<"c", "o", "m", "i", "s", "i", "o", "n">>, <<"c", "o", "m", "i", "s", "i", "A~", "^3", "n">>, <<"g", "a", "s", "t", "o", " ", "d", "e", " ", "m", "a", "n", "t", "e", "n", "i", "m", "i", "e", "n", "t", "o">>, <<"c", "a", "r", "g", "o">>,
       <<"t", "a", "r", "i", "f", "a">>, <<"s", "e", "r", "v", "i", "c", "i", "o", " ", "b", "a", "n", "c", "a", "r", "i", "o">>, <<"m", "a", "n", "t", "e", "n", "i", "m", "i", "e", "n", "t", "o">>, <<"s", "e", "g", "u", "r", "o", " ", "d", "e", " ", "c", "u", "e", "n", "t", "a">> >>

default_kw_impuestos ==
    << <<"i", "m", "p", "u", "e", "s", "t", "o">>, <<"i", "v", "a">>, <<"i", ".", "v", ".", "a">>, <<"r", "e", "t", "e", "n", "c", "i", "o", "n">>, <<"r", "e", "t", "e", "n", "c", "i", "A~", "^3", "n">>, <<"p", "e", "r", "c">>,
       <<"p", "e", "r", "c", "e", "p", "c", "i", "o", "n">>, <<"i", "m", "p", "u", "e", "s", "t", "o", " ", "d", "e", "b", "i", "t", "o", "s", " ", "y", " ", "c", "r", "e", "d", "i", "t", "o", "s">>, <<"i", "m", "p", "u", "e", "s", "t", "o", " ", "a", " ", "l", "o", "s", " ", "d", "e", "b", "i", "t", "o", "s">>,
       <<"i", "m", "p", "u", "e", "s", "t", "o", " ", "a", "l", " ", "c", "h", "e", "q", "u", "e">>, <<"l", "e", "y", " ", "2", "5", "4", "1", "3">>, <<"i", "d", "c">> >>

Unset == [set |-> FALSE, v |-> <<>>]

Set(v) == [set |-> TRUE, v |-> v]

\* st.session_state.get(key, default)
session_get(ss, key, default) == IF ss[key].set THEN ss[key].v ELSE default

read_kw_comisiones(ss) == session_get(ss, "kw_comisiones", default_kw_comisiones)

read_kw_impuestos(ss) == session_get(ss, "kw_impuestos", default_kw_impuestos)

\* The two masks of categorize_rows, given the keyword lists it read.
categorize_rows(d, detalle_col, kw) ==
    LET detalle == Tup([r \in 1..NRows(d) |-> Lower(PyStr(At(d, r, detalle_col)))])
    IN  [ is_comision |-> Tup([r \in 1..NRows(d) |-> AnyIn(detalle[r], kw.comisiones)]),
          is_impuesto |-> Tup([r \in 1..NRows(d) |-> AnyIn(detalle[r], kw.impuestos)]) ]

\* ---------------------------------------------------- build_output_sheets

\* The order with na_position="first": a missing date sorts before every date.
key_less_nulls_first(a, b, date_col) ==
    LET da == a[date_col]
        db == b[date_col]
    IN  IF da = db THEN TextLess(a.referencia, b.referencia)
        ELSE IF da.nat THEN TRUE
        ELSE IF db.nat THEN FALSE
        ELSE da.ymd < db.ymd

\* a sorts before b by [date_col, "referencia"], a missing date last.
key_less(a, b, date_col) ==
    LET da == a[date_col]
        db == b[date_col]
    IN  IF da = db THEN TextLess(a.referencia, b.referencia)
        ELSE IF da.nat THEN FALSE
        ELSE IF db.nat THEN TRUE
        ELSE da.ymd < db.ymd

\* x put after every row that does not sort after it.
RECURSIVE insert_stable(_, _, _)
insert_stable(s, x, date_col) ==
    IF s = <<>> THEN <<x>>
    ELSE IF key_less(x, s[Len(s)], date_col)
    THEN insert_stable(SubSeq(s, 1, Len(s) - 1), x, date_col) \o <<s[Len(s)]>>
    ELSE s \o <<x>>

\* df.sort_values(by=[date_col, "referencia"], kind="stable", na_position="last")
RECURSIVE sort_if_date(_, _)
sort_if_date(s, date_col) ==
    IF s = <<>> THEN <<>>
    ELSE insert_stable(sort_if_date(SubSeq(s, 1, Len(s) - 1), date_col), s[Len(s)], date_col)

\* The rows 1..n, in order, that satisfy the mask.
Where(n, mask) == SelectSeq(Tup([r \in 1..n |-> r]), LAMBDA r : mask[r])

NoSheets == [ok |-> TRUE, sh1 |-> <<>>, sh2 |-> <<>>, sh3 |-> <<>>, sh4 |-> <<>>, sh5 |-> <<>>]

\* df.columns[0] of an empty table raises IndexError.
IndexError == [ok |-> FALSE, sh1 |-> <<>>, sh2 |-> <<>>, sh3 |-> <<>>, sh4 |-> <<>>, sh5 |-> <<>>]

\* The column categorize_rows is given by build_output_sheets (line 100).
categorize_col(d, ref_col, detalle_col) ==
    IF Truthy(detalle_col) THEN detalle_col
    ELSE IF Truthy(ref_col) THEN ref_col
    ELSE Some(d.cols[1])

\* A row of base, with the index label it keeps through the selections.
base_row(d, r, fecha_col, ref_col, nombre_col, cuit_col, detalle_col, importe_series) ==
    [ idx        |-> r,
      fecha      |-> IF Truthy(fecha_col) THEN parse_one(At(d, r, fecha_col)) ELSE NaT,
      referencia |-> IF Truthy(ref_col) THEN PyStr(At(d, r, ref_col)) ELSE <<>>,
      nombre     |-> IF Truthy(nombre_col) THEN PyStr(At(d, r, nombre_col)) ELSE <<>>,
      cuit       |-> IF Truthy(cuit_col) THEN PyStr(At(d, r, cuit_col)) ELSE <<>>,
      detalle    |-> IF Truthy(detalle_col) THEN PyStr(At(d, r, detalle_col)) ELSE <<>>,
      importe    |-> importe_series[r] ]

to_sh1(b) ==
    [ idx |-> b.idx, fecha_de_recepcion |-> b.fecha, referencia |-> b.referencia,
      nombre_del_pagador |-> b.nombre, cuit_del_pagador |-> b.cuit,
      importe_recibido |-> b.importe ]

to_sh2(b) ==
    [ idx |-> b.idx, fecha_de_pago |-> b.fecha, referencia |-> b.referencia,
      nombre_del_proveedor |-> b.nombre, cuit_del_proveedor |-> b.cuit,
      importe_pagado |-> b.importe ]

to_sh34(b) ==
    [ idx |-> b.idx, fecha_del_debito |-> b.fecha, referencia |-> b.referencia,
      detalle |-> b.detalle, importe_debitado |-> b.importe ]

to_sh5(b) ==
    [ idx |-> b.idx, fecha_del_debito |-> b.fecha, referencia |-> b.referencia,
      detalle |-> <<"S", "i", "n", " ", "I", "d", "e", "n", "t", "i", "f", "i", "c", "a", "c", "i", "o", "n">>, importe_debitado |-> b.importe ]

\* The mask of sheet 5 on a remaining row (lines 144-146).
sh5_mask(dir, nombre, cuit) ==
    dir = "zero" \/ (Strip(nombre) = <<>> /\ Strip(cuit) = <<>>)

build_output_sheets(d, fecha_col, ref_col, nombre_col, cuit_col, detalle_col, importe_series, direction_series, kw) ==
    IF ~Truthy(detalle_col) /\ ~Truthy(ref_col) /\ Len(d.cols) = 0 THEN IndexError
    ELSE
    LET n    == NRows(d)
        cat  == categorize_rows(d, categorize_col(d, ref_col, detalle_col), kw)
        base == Tup([r \in 1..n |->
                    base_row(d, r, fecha_col, ref_col, nombre_col, cuit_col,
                             detalle_col, importe_series)])
        rem  == Tup([r \in 1..n |-> ~(cat.is_comision[r] \/ cat.is_impuesto[r])])
        sel(mask, proj(_)) ==
            LET w == Where(n, mask) IN Tup([i \in 1..Len(w) |-> proj(base[w[i]])])
        m1   == Tup([r \in 1..n |-> rem[r] /\ direction_series[r] = "in"])
        m2   == Tup([r \in 1..n |-> rem[r] /\ direction_series[r] = "out"])
        m5   == Tup([r \in 1..n |->
                    rem[r] /\ sh5_mask(direction_series[r], base[r].nombre, base[r].cuit)])
    IN  [ ok  |-> TRUE,
          sh1 |-> sort_if_date(sel(m1, to_sh1), "fecha_de_recepcion"),
          sh2 |-> sort_if_date(sel(m2, to_sh2), "fecha_de_pago"),
          sh3 |-> sort_if_date(sel(cat.is_comision, to_sh34), "fecha_del_debito"),
          sh4 |-> sort_if_date(sel(cat.is_impuesto, to_sh34), "fecha_del_debito"),
          sh5 |-> sort_if_date(sel(m5, to_sh5), "fecha_del_debito") ]

\* ------------------------------------------------------------ the emitter

\* The columns of each sheet, in the order of the sheet: the field of a row
\* and the header text.
sh1_columns ==
    << [name |-> "fecha_de_recepcion", header |-> <<"f", "e", "c", "h", "a", "_", "d", "e", "_", "r", "e", "c", "e", "p", "c", "i", "o", "n">>],
       [name |-> "referencia", header |-> <<"r", "e", "f", "e", "r", "e", "n", "c", "i", "a">>],
       [name |-> "nombre_del_pagador", header |-> <<"n", "o", "m", "b", "r", "e", "_", "d", "e", "l", "_", "p", "a", "g", "a", "d", "o", "r">>],
       [name |-> "cuit_del_pagador", header |-> <<"c", "u", "i", "t", "_", "d", "e", "l", "_", "p", "a", "g", "a", "d", "o", "r">>],
       [name |-> "importe_recibido", header |-> <<"i", "m", "p", "o", "r", "t", "e", "_", "r", "e", "c", "i", "b", "i", "d", "o">>] >>

sh2_columns ==
    << [name |-> "fecha_de_pago", header |-> <<"f", "e", "c", "h", "a", "_", "d", "e", "_", "p", "a", "g", "o">>],
       [name |-> "referencia", header |-> <<"r", "e", "f", "e", "r", "e", "n", "c", "i", "a">>],
       [name |-> "nombre_del_proveedor", header |-> <<"n", "o", "m", "b", "r", "e", "_", "d", "e", "l", "_", "p", "r", "o", "v", "e", "e", "d", "o", "r">>],
       [name |-> "cuit_del_proveedor", header |-> <<"c", "u", "i", "t", "_", "d", "e", "l", "_", "p", "r", "o", "v", "e", "e", "d", "o", "r">>],
       [name |-> "importe_pagado", header |-> <<"i", "m", "p", "o", "r", "t", "e", "_", "p", "a", "g", "a", "d", "o">>] >>

sh345_columns ==
    << [name |-> "fecha_del_debito", header |-> <<"f", "e", "c", "h", "a", "_", "d", "e", "l", "_", "d", "e", "b", "i", "t", "o">>],
       [name |-> "referencia", header |-> <<"r", "e", "f", "e", "r", "e", "n", "c", "i", "a">>],
       [name |-> "detalle", header |-> <<"d", "e", "t", "a", "l", "l", "e">>],
       [name |-> "importe_debitado", header |-> <<"i", "m", "p", "o", "r", "t", "e", "_", "d", "e", "b", "i", "t", "a", "d", "o">>] >>

\* df[col].astype(str), on one value of a sheet: a date column holds
\* timestamps at midnight ("2024-01-31", or "NaT"), an amount column floats,
\* every other column text.
astype_str(v, name) ==
    IF name \in {"fecha_de_recepcion", "fecha_de_pago", "fecha_del_debito"}
    THEN (IF v.nat THEN <<"N", "a", "T">>
          ELSE FracToText(v.ymd \div 10000, 4) \o <<"-">> \o FracToText((v.ymd \div 100) % 100, 2)
                   \o <<"-">> \o FracToText(v.ymd % 100, 2))
    ELSE IF name \in {"importe_recibido", "importe_pagado", "importe_debitado"}
    THEN FloatToText(v)
    ELSE v

\* .head(n).
head(s, n) == SubSeq(s, 1, IF Len(s) < n THEN Len(s) ELSE n)

\* autosize_and_formats without its two format loops: the widths of the first
\* loop stay.
autosize_only(sh, columns, date_cols, money_cols) ==
    Tup([i \in 1..Len(columns) |->
        LET max_len == SetMax({Len(columns[i].header)} \cup
                         {Len(astype_str(head(sh, 1000)[r][columns[i].name], columns[i].name)) :
                             r \in 1..Len(head(sh, 1000))})
        IN  IF max_len + 2 < 60 THEN max_len + 2 ELSE 60])

\* The widths autosize_and_formats leaves on the columns of a sheet: the loop
\* of lines 173-175 sets min(max_len + 2, 60) on every column, then lines
\* 179-186 set 12 on the date columns and 14 on the money columns.
autosize_and_formats(sh, columns, date_cols, money_cols) ==
    LET first == Tup([i \in 1..Len(columns) |->
                    LET max_len == SetMax({Len(columns[i].header)} \cup
                          {Len(astype_str(head(sh, 1000)[r][columns[i].name], columns[i].name)) :
                              r \in 1..Len(head(sh, 1000))})
                    IN  IF max_len + 2 < 60 THEN max_len + 2 ELSE 60])
        dated == Tup([i \in 1..Len(columns) |->
                    IF columns[i].name \in date_cols THEN 12 ELSE first[i]])
    IN  Tup([i \in 1..Len(columns) |->
            IF columns[i].name \in money_cols THEN 14 ELSE dated[i]])

\* No sheet written yet.
NoWidths == <<>>

\* to_excel_bytes: each sheet is written and autosize_and_formats called with
\* its date and money columns (lines 225-243).
to_excel_bytes(shs) ==
    << autosize_and_formats(shs.sh1, sh1_columns, {"fecha_de_recepcion"}, {"importe_recibido"}),
       autosize_and_formats(shs.sh2, sh2_columns, {"fecha_de_pago"}, {"importe_pagado"}),
       autosize_and_formats(shs.sh3, sh345_columns, {"fecha_del_debito"}, {"importe_debitado"}),
       autosize_and_formats(shs.sh4, sh345_columns, {"fecha_del_debito"}, {"importe_debitado"}),
       autosize_and_formats(shs.sh5, sh345_columns, {"fecha_del_debito"}, {"importe_debitado"}) >>

\* df = df.copy(); df.columns = [str(c).strip() for c in df.columns]
stripped(d) == [cols |-> strip_columns(d.cols), rows |-> d.rows]

\* process_dataframe, with the keyword lists categorize_rows reads from the
\* session state.
process_dataframe(raw, ss) ==
    LET d  == stripped(raw)
        g  == guess_columns(d.cols)
        da == detect_direction_and_amount(d, g.importe, g.credito, g.debito, g.tipo)
        kw == [comisiones |-> read_kw_comisiones(ss), impuestos |-> read_kw_impuestos(ss)]
    IN  [ roles     |-> g,
          importe   |-> da.importe,
          direction |-> da.direction,
          kw        |-> kw,
          sheets    |-> build_output_sheets(d, g.fecha, g.ref, g.nombre, g.cuit,
                                            g.detalle, da.importe, da.direction, kw) ]

\* ------------------------------------------------------------ the page (UI)

default_text_comisiones ==
    <<"c", "o", "m", "i", "s", "i", "o", "n", ",", "c", "o", "m", "i", "s", "i", "A~", "^3", "n", ",", "g", "a", "s", "t", "o", " ", "d", "e", " ", "m", "a", "n", "t", "e", "n", "i", "m", "i", "e", "n", "t", "o", ",", "c", "a", "r", "g", "o", ",", "t", "a", "r", "i", "f", "a", ",", "s", "e", "r", "v", "i", "c", "i", "o", " ", "b", "a", "n", "c", "a", "r", "i", "o", ",", "m", "a", "n", "t", "e", "n", "i", "m", "i", "e", "n", "t", "o", ",", "s", "e", "g", "u", "r", "o", " ", "d", "e", " ", "c", "u", "e", "n", "t", "a">>

default_text_impuestos ==
    <<"i", "m", "p", "u", "e", "s", "t", "o", ",", "i", "v", "a", ",", "i", ".", "v", ".", "a", ",", "r", "e", "t", "e", "n", "c", "i", "o", "n", ",", "r", "e", "t", "e", "n", "c", "i", "A~", "^3", "n", ",", "p", "e", "r", "c", ",", "p", "e", "r", "c", "e", "p", "c", "i", "o", "n", ",", "i", "m", "p", "u", "e", "s", "t", "o", " ", "d", "e", "b", "i", "t", "o", "s", " ", "y", " ", "c", "r", "e", "d", "i", "t", "o", "s", ",", "i", "m", "p", "u", "e", "s", "t", "o", " ", "a", " ", "l", "o", "s", " ", "d", "e", "b", "i", "t", "o", "s", ",", "i", "m", "p", "u", "e", "s", "t", "o", " ", "a", "l", " ", "c", "h", "e", "q", "u", "e", ",", "l", "e", "y", " ", "2", "5", "4", "1", "3", ",", "i", "d", "c">>

\* str.split(sep) for a one-character sep.
RECURSIVE Split(_, _)
Split(s, sep) ==
    LET at == {i \in 1..Len(s) : s[i] = sep}
    IN  IF at = {} THEN <<s>>
        ELSE <<SubSeq(s, 1, SetMin(at) - 1)>> \o Split(SubSeq(s, SetMin(at) + 1, Len(s)), sep)

\* [k.strip().lower() for k in text.split(",") if k.strip()]
parse_keywords(text) ==
    LET kept == SelectSeq(Split(text, ","), LAMBDA k : Strip(k) # <<>>)
    IN  Tup([i \in 1..Len(kept) |-> Lower(Strip(kept[i]))])

\* -------------------------------------------------------------- idle parts

NoRoles ==
    [ fecha |-> None, ref |-> None, nombre |-> None, cuit |-> None, detalle |-> None,
      importe |-> None, credito |-> None, debito |-> None, tipo |-> None ]

EmptyDf == [cols |-> <<>>, rows |-> <<>>]

NoFile == [some |-> FALSE, ok |-> FALSE, table |-> EmptyDf]

NoKw == [comisiones |-> Unset, impuestos |-> Unset]

\* st.session_state before the script has written a key.
EmptySession == [kw_comisiones |-> Unset, kw_impuestos |-> Unset]

NothingShown ==
    [error |-> FALSE, success |-> FALSE, download |-> FALSE, exception |-> FALSE]

DefaultWidget ==
    [comisiones |-> default_text_comisiones, impuestos |-> default_text_impuestos]

IdleNum ==
    /\ num_pc = "idle" /\ num_in = NaNCell /\ num_out = Zero
    /\ date_out = NaT /\ cell_error = FALSE

IdleCols ==
    /\ col_pc = "idle"
    /\ col_headers = <<>> /\ col_roles = NoRoles
    /\ col_headers2 = <<>> /\ col_roles2 = NoRoles

IdleUI ==
    /\ widget = DefaultWidget
    /\ kw_input = DefaultWidget
    /\ uploaded = NoFile
    /\ rerun = FALSE
    /\ shown = NothingShown

IdleRun ==
    /\ df = EmptyDf
    /\ roles = NoRoles
    /\ importe = <<>>
    /\ direction = <<>>
    /\ kw_read = NoKw
    /\ sheets = NoSheets
    /\ widths = NoWidths

\* src/app.py: no table written yet.
NoAppSheets ==
    [ pagos_recibidos |-> <<>>, pagos_realizados |-> <<>>, comisiones |-> <<>>,
      impuestos |-> <<>>, sin_identificar |-> <<>> ]

IdleApp ==
    /\ app_pc = "idle"
    /\ uploaded_file = NoFile
    /\ app_df = EmptyDf
    /\ app_tipo = <<>>
    /\ app_sheets = NoAppSheets
    /\ app_shown = NothingShown

\* ------------------------------------------------- _to_number, cell by cell

NumAlphabet == {"1", ",", ".", " ", "-"}

NumSamples ==
    { <<"1", ".", "2", "3", "4", ",", "5", "6">>, <<"1", ",", "2", "3", "4", ".", "5", "6">>, <<"1", ",", "2", "3", "4", ",", "5", "6", "7">>, <<"1", "2", ",", "3", "4", "5", "6">>, <<"-", "5", "0", ",", "0", "0">>,
      <<"1", ".", "5", "0", "0", ",", "0", "0">>, <<"1", "5", "0", ".", "0", "0">>, <<"1", " ", "2", "3", "4", ",", "5", "6">>, <<"a", "b", "c">>, <<"1", ",", "2", ",", "3">>, <<"+", "7">> }

\* Texts of date columns: dates in the formats tried, dates that are none,
\* dates with a time of day, and other text.
DateSamples ==
    { <<"3", "1", "/", "0", "1", "/", "2", "0", "2", "4">>, <<"2", "0", "2", "4", "-", "0", "1", "-", "3", "1">>, <<"3", "1", "-", "0", "1", "-", "2", "0", "2", "4">>, <<"0", "1", "/", "3", "1", "/", "2", "0", "2", "4">>, <<" ", "1", "/", "2", "/", "2", "0", "2", "4", " ">>,
      <<"2", "9", "/", "0", "2", "/", "2", "0", "2", "4">>, <<"2", "9", "/", "0", "2", "/", "2", "0", "2", "3">>, <<"3", "1", "/", "1", "3", "/", "2", "0", "2", "4">>,
      <<"3", "1", "/", "0", "1", "/", "2", "0", "2", "4", " ", "1", "0", ":", "3", "0", ":", "0", "0">>, <<"2", "0", "2", "4", "-", "0", "1", "-", "3", "1", " ", "2", "3", ":", "5", "9", ":", "5", "9">>, <<"3", "1", "/", "0", "1", "/", "2", "0", "2", "4", " ", "2", "5", ":", "0", "0", ":", "0", "0">>,
      <<"h", "o", "l", "a">>, <<"n", "o">>, <<>>, <<"n", "a", "n">> }

\* The cells of a date column handed to _to_datetime.
DateCells == {NaNCell, DateCell(20240131)} \cup {StrCell(s) : s \in DateSamples}

NumCells ==
    {NaNCell, NumCell(Dec(150, 0)), NumCell(Dec(-5050, 2))}
        \cup DateCells
        \cup {StrCell(s) : s \in NumSamples \cup AllTexts(NumAlphabet, MaxNumLen)}

InitNum ==
    /\ num_pc = "pick"
    /\ num_in = NaNCell
    /\ num_out = Zero
    /\ date_out = NaT
    /\ cell_error = FALSE
    /\ IdleCols /\ IdleUI /\ IdleRun /\ IdleApp
    /\ pc = "idle" /\ session_state = EmptySession

NumPick ==
    /\ num_pc = "pick"
    /\ \E x \in NumCells : num_in' = x
    /\ num_pc' = "parse"
    /\ UNCHANGED <<num_out, date_out, cell_error, colVars, uiVars, procVars, appVars>>

\* _to_number on the cell: series.apply(parse_num).fillna(0.0).
NumParse ==
    /\ num_pc = "parse"
    /\ num_out' = _to_number(num_in)
    /\ cell_error' = parse_num_call(num_in).raised
    /\ num_pc' = "done"
    /\ UNCHANGED <<num_in, date_out, colVars, uiVars, procVars, appVars>>

\* _to_datetime on the cell: series.apply(parse_one).
DateParse ==
    /\ num_pc = "parse"
    /\ num_in \in DateCells
    /\ date_out' = parse_one(num_in)
    /\ cell_error' = parse_one_call(num_in).raised
    /\ num_pc' = "dated"
    /\ UNCHANGED <<num_in, num_out, colVars, uiVars, procVars, appVars>>

NextNum == NumPick \/ NumParse \/ DateParse

SpecNum == InitNum /\ [][NextNum]_vars

\* --------------------------------------------- guess_columns, table by table

HeaderPool ==
    { <<"F", "e", "c", "h", "a">>, <<"F", "E", "C", "H", "A">>, <<"F", "e", "c", "h", "a", " ", "O", "p", "e", "r", "a", "c", "i", "o'", "n">>, <<"d", "a", "t", "e">>, <<"C", "o", "n", "c", "e", "p", "t", "o">>, <<"D", "e", "t", "a", "l", "l", "e">>,
      <<"N", "r", "o", ".", " ", "O", "p", "e", "r", "a", "c", "i", "o'", "n">>, <<"x", "y", "z">>, <<" ", "I", "m", "p", "o", "r", "t", "e", " ">> }

\* The header lists of at most n different headers of the pool.
HeaderLists(n) ==
    UNION { {h \in [1..k -> HeaderPool] : \A i, j \in 1..k : i # j => h[i] # h[j]} :
            k \in 0..n }

InitCols ==
    /\ col_pc = "pick"
    /\ col_headers = <<>> /\ col_roles = NoRoles
    /\ col_headers2 = <<>> /\ col_roles2 = NoRoles
    /\ IdleNum /\ IdleUI /\ IdleRun /\ IdleApp
    /\ pc = "idle" /\ session_state = EmptySession

ColPick ==
    /\ col_pc = "pick"
    /\ \E h \in HeaderLists(MaxCols) : col_headers' = strip_columns(h)
    /\ col_pc' = "guess"
    /\ UNCHANGED <<col_roles, col_headers2, col_roles2, numVars, uiVars, procVars, appVars>>

ColGuess ==
    /\ col_pc = "guess"
    /\ col_roles' = guess_columns(col_headers)
    /\ col_pc' = "again"
    /\ UNCHANGED <<col_headers, col_headers2, col_roles2, numVars, uiVars, procVars, appVars>>

\* The same columns in another order, resolved again.
ColGuessReordered ==
    /\ col_pc = "again"
    /\ \E p \in Permutations(1..Len(col_headers)) :
          LET h2 == Tup([i \in 1..Len(col_headers) |-> col_headers[p[i]]])
          IN  /\ col_headers2' = h2
              /\ col_roles2' = guess_columns(h2)
    /\ col_pc' = "done"
    /\ UNCHANGED <<col_headers, col_roles, numVars, uiVars, procVars, appVars>>

NextCols == ColPick \/ ColGuess \/ ColGuessReordered

SpecCols == InitCols /\ [][NextCols]_vars

\* ------------------------------------------ process_dataframe, table by table

\* Every row with one cell of each column's samples.
RECURSIVE RowsOver(_)
RowsOver(cells) ==
    IF cells = <<>> THEN {<<>>}
    ELSE {<<c>> \o rest : c \in Head(cells), rest \in RowsOver(Tail(cells))}

\* The tables enumerated: for each layout its headers, the cells of each
\* column for the one-row tables, and the fewer cells of each column for the
\* tables of several rows.
Layouts ==
    { [ cols  |-> << <<" ", "D", "e", "t", "a", "l", "l", "e", " ">>, <<"I", "m", "p", "o", "r", "t", "e">>, <<"N", "o", "m", "b", "r", "e">>, <<"C", "U", "I", "T">> >>,
        cells |-> << {StrCell(<<"C", "a", "r", "g", "o", " ", "I", "V", "A">>), StrCell(<<"C", "o", "m", "i", "s", "i", "o", "n", " ", "m", "a", "n", "t", "e", "n", "i", "m", "i", "e", "n", "t", "o">>),
                      StrCell(<<"P", "a", "g", "o", " ", "f", "a", "c", "t", "u", "r", "a", " ", "1", "2", "3">>), NaNCell},
                     {StrCell(<<"1", "5", "0", ",", "0", "0">>), StrCell(<<"-", "5", "0", ",", "0", "0">>), NumCell(Zero)},
                     {StrCell(<<>>), StrCell(<<"A", "c", "m", "e", " ", "S", "A">>), NaNCell},
                     {StrCell(<<" ">>), StrCell(<<"3", "0", "-", "1", "-", "1">>), NaNCell} >>,
        few   |-> << {StrCell(<<"C", "a", "r", "g", "o", " ", "I", "V", "A">>), StrCell(<<"P", "a", "g", "o", " ", "f", "a", "c", "t", "u", "r", "a", " ", "1", "2", "3">>)},
                     {StrCell(<<"1", "5", "0", ",", "0", "0">>)},
                     {StrCell(<<>>), StrCell(<<"A", "c", "m", "e", " ", "S", "A">>)},
                     {StrCell(<<" ">>)} >> ],
      [ cols  |-> << <<"C", "o", "n", "c", "e", "p", "t", "o">>, <<"M", "o", "n", "t", "o">>, <<"T", "i", "p", "o">>, <<"C", "l", "i", "e", "n", "t", "e">> >>,
        cells |-> << {StrCell(<<"P", "e", "r", "c", "e", "p", "c", "i", "o", "n", " ", "I", "V", "A">>), StrCell(<<"T", "r", "a", "n", "s", "f", "e", "r", "e", "n", "c", "i", "a">>)},
                     {StrCell(<<"1", ".", "5", "0", "0", ",", "0", "0">>), StrCell(<<"-", "2", "0">>), StrCell(<<"0", ",", "0", "0">>)},
                     {StrCell(<<"C", "r", "e", "d", "i", "t", "o">>), StrCell(<<"P", "A", "G", "O">>), StrCell(<<"P", "a", "g", "o", " ", "c", "r", "e", "d", "i", "t", "o">>),
                      StrCell(<<"C", "h", "e", "q", "u", "e", " ", "d", "e", "p", "o", "s", "i", "t", "a", "d", "o">>), StrCell(<<"o", "t", "r", "o">>), NaNCell},
                     {StrCell(<<"A", "c", "m", "e", " ", "S", "A">>), StrCell(<<>>)} >>,
        few   |-> << {StrCell(<<"T", "r", "a", "n", "s", "f", "e", "r", "e", "n", "c", "i", "a">>)},
                     {StrCell(<<"1", ".", "5", "0", "0", ",", "0", "0">>), StrCell(<<"-", "2", "0">>)},
                     {StrCell(<<"C", "r", "e", "d", "i", "t", "o">>), StrCell(<<"o", "t", "r", "o">>)},
                     {StrCell(<<"A", "c", "m", "e", " ", "S", "A">>)} >> ],
      [ cols  |-> << <<"x", "y", "z">>, <<"a", "b", "c">> >>,
        cells |-> << {StrCell(<<"c", "a", "r", "g", "o">>), StrCell(<<"C", "a", "r", "g", "o", " ", "I", "V", "A">>), StrCell(<<"h", "o", "l", "a">>), NaNCell},
                     {StrCell(<<"1", "5", "0", ",", "0", "0">>), StrCell(<<"x">>)} >>,
        few   |-> << {StrCell(<<"c", "a", "r", "g", "o">>), StrCell(<<"h", "o", "l", "a">>)},
                     {StrCell(<<"1", "5", "0", ",", "0", "0">>)} >> ],
      [ cols  |-> << <<"F", "e", "c", "h", "a">>, <<"R", "e", "f", "e", "r", "e", "n", "c", "i", "a">>, <<"C", "r", "e'", "d", "i", "t", "o">>, <<"D", "e'", "b", "i", "t", "o">>, <<"T", "i", "t", "u", "l", "a", "r">> >>,
        cells |-> << {StrCell(<<"3", "1", "/", "0", "1", "/", "2", "0", "2", "4">>), StrCell(<<"0", "1", "/", "0", "2", "/", "2", "0", "2", "4">>),
                      StrCell(<<"2", "0", "2", "4", "-", "0", "1", "-", "3", "1">>), StrCell(<<"n", "o">>), NaNCell},
                     {StrCell(<<"B", "2">>), StrCell(<<"A", "1">>)},
                     {StrCell(<<"1", ".", "0", "0", "0", ",", "5", "0">>), NaNCell},
                     {NumCell(Dec(725, 2)), NaNCell},
                     {StrCell(<<"A", "c", "m", "e">>),
                      StrCell(<<"A", "c", "m", "e", " ", "S", "o", "c", "i", "e", "d", "a", "d", " ", "A", "n", "o", "n", "i", "m", "a", " ", "C", "o", "m", "e", "r", "c", "i", "a", "l", " ", "I", "n", "d", "u", "s", "t", "r", "i", "a", "l", " ", "y", " ", "F", "i", "n", "a", "n", "c", "i", "e", "r", "a", " ", "d", "e", "l", " ", "S", "u", "r">>)} >>,
        few   |-> << {StrCell(<<"3", "1", "/", "0", "1", "/", "2", "0", "2", "4">>), StrCell(<<"0", "1", "/", "0", "2", "/", "2", "0", "2", "4">>), NaNCell},
                     {StrCell(<<"B", "2">>), StrCell(<<"A", "1">>)},
                     {StrCell(<<"1", ".", "0", "0", "0", ",", "5", "0">>)},
                     {NaNCell},
                     {StrCell(<<"A", "c", "m", "e">>)} >> ],
      [ cols  |-> << <<"I", "m", "p", "o", "r", "t", "e">>, <<"H", "a", "b", "e", "r">>, <<"D", "e", "b", "e">> >>,
        cells |-> << {StrCell(<<"1", "0", "0", ",", "0", "0">>)},
                     {StrCell(<<"3", "0", ",", "0", "0">>), StrCell(<<"x">>), NaNCell},
                     {StrCell(<<"1", "0", ",", "0", "0">>), NumCell(Dec(5, 0))} >>,
        few   |-> << {StrCell(<<"1", "0", "0", ",", "0", "0">>)},
                     {StrCell(<<"3", "0", ",", "0", "0">>)},
                     {StrCell(<<"1", "0", ",", "0", "0">>), NaNCell} >> ],
      [ cols  |-> << <<"H", "a", "b", "e", "r">>, <<"M", "o", "n", "t", "o">> >>,
        cells |-> << {StrCell(<<"3", "0", ",", "0", "0">>)},
                     {StrCell(<<"-", "7", ",", "5", "0">>), NaNCell} >>,
        few   |-> << {StrCell(<<"3", "0", ",", "0", "0">>)},
                     {StrCell(<<"-", "7", ",", "5", "0">>)} >> ],
      [ cols  |-> << <<"D", "e", "b", "e">>, <<"C", "o", "n", "c", "e", "p", "t", "o">> >>,
        cells |-> << {StrCell(<<"1", "0", ",", "0", "0">>)},
                     {StrCell(<<"P", "a", "g", "o">>), StrCell(<<"C", "a", "r", "g", "o">>)} >>,
        few   |-> << {StrCell(<<"1", "0", ",", "0", "0">>)},
                     {StrCell(<<"P", "a", "g", "o">>)} >> ] }

\* The tables of k rows with the given headers, each row over the given cells.
TablesOf(cols, cells, k) ==
    {[cols |-> cols, rows |-> rs] : rs \in [1..k -> RowsOver(cells)]}

\* The scenario of the specification: detalle, importe, nombre, cuit.
ScenarioTable ==
    [ cols |-> << <<"d", "e", "t", "a", "l", "l", "e">>, <<"i", "m", "p", "o", "r", "t", "e">>, <<"n", "o", "m", "b", "r", "e">>, <<"c", "u", "i", "t">> >>,
      rows |-> << << StrCell(<<"C", "o", "m", "i", "s", "i", "o", "n", " ", "m", "a", "n", "t", "e", "n", "i", "m", "i", "e", "n", "t", "o">>), StrCell(<<"-", "5", "0", ",", "0", "0">>),
                     StrCell(<<>>), StrCell(<<>>) >>,
                  << StrCell(<<"P", "a", "g", "o", " ", "f", "a", "c", "t", "u", "r", "a", " ", "1", "2", "3">>), StrCell(<<"1", ".", "5", "0", "0", ",", "0", "0">>),
                     StrCell(<<"A", "c", "m", "e", " ", "S", "A">>), StrCell(<<"3", "0", "-", "1", "-", "1">>) >> >> ]

\* The scenario as the decoder gives it: the empty cells are missing values.
ScenarioTableNaN ==
    [ cols |-> ScenarioTable.cols,
      rows |-> << << StrCell(<<"C", "o", "m", "i", "s", "i", "o", "n", " ", "m", "a", "n", "t", "e", "n", "i", "m", "i", "e", "n", "t", "o">>), StrCell(<<"-", "5", "0", ",", "0", "0">>),
                     NaNCell, NaNCell >>,
                  ScenarioTable.rows[2] >> ]

\* The empty table, the scenario, every one-row table of a layout and every
\* table of 2..n rows over its fewer cells.
Tables(n) ==
    {EmptyDf, ScenarioTable, ScenarioTableNaN}
        \cup UNION {TablesOf(l.cols, l.cells, 1) : l \in Layouts}
        \cup UNION {TablesOf(l.cols, l.few, k) : l \in Layouts, k \in 2..n}

\* The session state once the page has set the keywords from the default
\* texts of its two inputs.
DefaultSession ==
    [ kw_comisiones |-> Set(parse_keywords(default_text_comisiones)),
      kw_impuestos  |-> Set(parse_keywords(default_text_impuestos)) ]

\* The session state before the page has set the keywords (the defaults of
\* categorize_rows apply) and after it has set them from the default or from
\* edited inputs.
SessionStates ==
    { EmptySession, DefaultSession,
      [ kw_comisiones |-> Set(parse_keywords(<<" ", "C", "a", "r", "g", "o", " ", ",", "C", "o", "m", "i", "s", "i", "o", "n", ",", ",", " ">>)),
        kw_impuestos  |-> Set(parse_keywords(<<"I", "V", "A">>)) ],
      [ kw_comisiones |-> Set(parse_keywords(<<>>)),
        kw_impuestos  |-> Set(parse_keywords(<<"p", "e", "r", "c", ",", " ", "i", "v", "a">>)) ] }

InitProc ==
    /\ pc = "pick"
    /\ session_state = EmptySession
    /\ IdleRun /\ IdleNum /\ IdleCols /\ IdleUI /\ IdleApp

ProcPick ==
    /\ pc = "pick"
    /\ \E t \in Tables(MaxRows) : df' = t
    /\ \E ss \in SessionStates : session_state' = ss
    /\ pc' = "process"
    /\ UNCHANGED <<roles, importe, direction, kw_read, sheets, widths, numVars, colVars,
                   uiVars, appVars>>

ProcessDataframe ==
    /\ pc = "process"
    /\ LET res == process_dataframe(df, session_state)
       IN  /\ roles' = res.roles
           /\ importe' = res.importe
           /\ direction' = res.direction
           /\ kw_read' = [comisiones |-> Set(res.kw.comisiones),
                          impuestos  |-> Set(res.kw.impuestos)]
           /\ sheets' = res.sheets
    /\ pc' = "done"
    /\ UNCHANGED <<df, session_state, widths, numVars, colVars, uiVars, appVars>>

\* Line 292: to_excel_bytes on the sheets process_dataframe returned.
ToExcelBytes ==
    /\ pc = "done"
    /\ sheets.ok
    /\ widths' = to_excel_bytes(sheets)
    /\ pc' = "written"
    /\ UNCHANGED <<df, session_state, roles, importe, direction, kw_read, sheets,
                   numVars, colVars, uiVars, appVars>>

NextProc == ProcPick \/ ProcessDataframe \/ ToExcelBytes

SpecProc == InitProc /\ [][NextProc]_vars

\* ------------------------------------------------------ the script, run by run

\* What the user may type into the two keyword inputs.
TextsComisiones == {default_text_comisiones, <<" ", "C", "a", "r", "g", "o", " ", ",", "C", "o", "m", "i", "s", "i", "o", "n", ",", ",", " ">>}

TextsImpuestos == {default_text_impuestos, <<"I", "V", "A">>}

\* What the user may upload: a file the decoder rejects, and readable tables.
Files ==
    { [some |-> TRUE, ok |-> FALSE, table |-> EmptyDf],
      [some |-> TRUE, ok |-> TRUE, table |-> EmptyDf],
      [some |-> TRUE, ok |-> TRUE, table |-> ScenarioTable],
      [some |-> TRUE, ok |-> TRUE,
       table |-> [ cols |-> << <<"x", "y", "z">>, <<"I", "m", "p", "o", "r", "t", "e">> >>,
                   rows |-> << << StrCell(<<"C", "a", "r", "g", "o", " ", "I", "V", "A">>), StrCell(<<"1", "5", "0", ",", "0", "0">>) >> >> ]] }

\* The page is opened: the script starts its first run with the inputs at
\* their default texts and no file.
Init ==
    /\ pc = "text_input"
    /\ session_state = EmptySession
    /\ IdleUI /\ IdleRun /\ IdleNum /\ IdleCols /\ IdleApp

\* Lines 262-265: st.text_input returns the texts of this run.
TextInputs ==
    /\ pc = "text_input"
    /\ kw_input' = widget
    /\ pc' = "set_comisiones"
    /\ UNCHANGED <<widget, uploaded, rerun, shown, session_state, df, roles, importe,
                   direction, kw_read, sheets, widths, numVars, colVars, appVars>>

\* Line 266.
SetKwComisiones ==
    /\ pc = "set_comisiones"
    /\ session_state' =
          [session_state EXCEPT !.kw_comisiones = Set(parse_keywords(kw_input.comisiones))]
    /\ pc' = "set_impuestos"
    /\ UNCHANGED <<uiVars, df, roles, importe, direction, kw_read, sheets, widths, numVars,
                   colVars, appVars>>

\* Line 267.
SetKwImpuestos ==
    /\ pc = "set_impuestos"
    /\ session_state' =
          [session_state EXCEPT !.kw_impuestos = Set(parse_keywords(kw_input.impuestos))]
    /\ pc' = "uploader"
    /\ UNCHANGED <<uiVars, df, roles, importe, direction, kw_read, sheets, widths, numVars,
                   colVars, appVars>>

\* Lines 269-271: without a file the script ends at its caption.
FileUploader ==
    /\ pc = "uploader"
    /\ pc' = IF uploaded.some THEN "read" ELSE "end"
    /\ UNCHANGED <<uiVars, session_state, df, roles, importe, direction, kw_read, sheets, widths,
                   numVars, colVars, appVars>>

\* The read block without st.stop(): the error is shown and the script goes on.
ReadFileWithoutStop ==
    /\ pc = "read"
    /\ IF uploaded.ok
       THEN /\ df' = uploaded.table
            /\ shown' = [shown EXCEPT !.success = TRUE]
       ELSE /\ df' = df
            /\ shown' = [shown EXCEPT !.error = TRUE]
    /\ pc' = "process"
    /\ UNCHANGED <<widget, kw_input, uploaded, rerun, session_state, roles, importe,
                   direction, kw_read, sheets, widths, numVars, colVars, appVars>>

\* Lines 272-282: the decoder reads the file, or st.error and st.stop().
ReadFile ==
    /\ pc = "read"
    /\ IF uploaded.ok
       THEN /\ df' = uploaded.table
            /\ shown' = [shown EXCEPT !.success = TRUE]
            /\ pc' = "process"
       ELSE /\ df' = df
            /\ shown' = [shown EXCEPT !.error = TRUE]
            /\ pc' = "end"
    /\ UNCHANGED <<widget, kw_input, uploaded, rerun, session_state, roles, importe,
                   direction, kw_read, sheets, widths, numVars, colVars, appVars>>

\* Lines 209-212: the headers are stripped, the roles resolved, the amounts
\* and directions computed.
GuessAndDetect ==
    /\ pc = "process"
    /\ LET d  == stripped(df)
           g  == guess_columns(d.cols)
           da == detect_direction_and_amount(d, g.importe, g.credito, g.debito, g.tipo)
       IN  /\ roles' = g
           /\ importe' = da.importe
           /\ direction' = da.direction
    /\ pc' = "read_comisiones"
    /\ UNCHANGED <<uiVars, session_state, df, kw_read, sheets, widths, numVars, colVars, appVars>>

\* Line 85, in categorize_rows.
ReadKwComisiones ==
    /\ pc = "read_comisiones"
    /\ kw_read' = [kw_read EXCEPT !.comisiones = Set(read_kw_comisiones(session_state))]
    /\ pc' = "read_impuestos"
    /\ UNCHANGED <<uiVars, session_state, df, roles, importe, direction, sheets, widths, numVars,
                   colVars, appVars>>

\* Line 86, in categorize_rows.
ReadKwImpuestos ==
    /\ pc = "read_impuestos"
    /\ kw_read' = [kw_read EXCEPT !.impuestos = Set(read_kw_impuestos(session_state))]
    /\ pc' = "build"
    /\ UNCHANGED <<uiVars, session_state, df, roles, importe, direction, sheets, widths, numVars,
                   colVars, appVars>>

\* Lines 88-165 and 213-214: the sheets; an exception ends the run.
BuildSheets ==
    /\ pc = "build"
    /\ sheets' = build_output_sheets(stripped(df), roles.fecha, roles.ref, roles.nombre,
                     roles.cuit, roles.detalle, importe, direction,
                     [comisiones |-> kw_read.comisiones.v, impuestos |-> kw_read.impuestos.v])
    /\ IF sheets'.ok
       THEN pc' = "excel" /\ shown' = shown
       ELSE pc' = "end" /\ shown' = [shown EXCEPT !.exception = TRUE]
    /\ UNCHANGED <<widget, kw_input, uploaded, rerun, session_state, df, roles, importe,
                   direction, kw_read, widths, numVars, colVars, appVars>>

\* Lines 286-298: the previews, to_excel_bytes and the download button.
ToExcelAndDownload ==
    /\ pc = "excel"
    /\ widths' = to_excel_bytes(sheets)
    /\ shown' = [shown EXCEPT !.download = TRUE]
    /\ pc' = "end"
    /\ UNCHANGED <<widget, kw_input, uploaded, rerun, session_state, df, roles, importe,
                   direction, kw_read, sheets, numVars, colVars, appVars>>

\* An edit that would store the keyword lists in the session state at once,
\* while a run is under way.
EditKeywordsWritingState ==
    /\ \E c \in TextsComisiones, i \in TextsImpuestos :
          /\ widget' = [comisiones |-> c, impuestos |-> i]
          /\ widget' # widget
          /\ session_state' = [ kw_comisiones |-> Set(parse_keywords(c)),
                                kw_impuestos  |-> Set(parse_keywords(i)) ]
    /\ rerun' = TRUE
    /\ UNCHANGED <<kw_input, uploaded, shown, pc, df, roles, importe, direction,
                   kw_read, sheets, widths, numVars, colVars, appVars>>

\* The user edits a keyword input (lines 262-265): the browser holds the new
\* text and asks for a rerun.  The session state is written by the script only.
EditKeywords ==
    /\ \E c \in TextsComisiones, i \in TextsImpuestos :
          /\ widget' = [comisiones |-> c, impuestos |-> i]
          /\ widget' # widget
    /\ rerun' = TRUE
    /\ UNCHANGED <<kw_input, uploaded, shown, procVars, numVars, colVars, appVars>>

\* The user chooses a file (line 269) and a rerun is asked for.
Upload ==
    /\ \E f \in Files : uploaded' = f /\ f # uploaded
    /\ rerun' = TRUE
    /\ UNCHANGED <<widget, kw_input, shown, procVars, numVars, colVars, appVars>>

\* Streamlit serves a pending rerun: the run in progress, if any, is stopped
\* and the script starts again from its first line, in the same session.
Rerun ==
    /\ rerun
    /\ rerun' = FALSE
    /\ pc' = "text_input"
    /\ shown' = NothingShown
    /\ df' = EmptyDf /\ roles' = NoRoles /\ importe' = <<>> /\ direction' = <<>>
    /\ kw_read' = NoKw /\ sheets' = NoSheets /\ widths' = NoWidths
    /\ UNCHANGED <<widget, kw_input, uploaded, session_state, numVars, colVars, appVars>>

Next ==
    \/ TextInputs \/ SetKwComisiones \/ SetKwImpuestos \/ FileUploader \/ ReadFile
    \/ GuessAndDetect \/ ReadKwComisiones \/ ReadKwImpuestos \/ BuildSheets
    \/ ToExcelAndDownload \/ EditKeywords \/ Upload \/ Rerun

Spec == Init /\ [][Next]_vars

\* ------------------------------------------------ src/app.py, the script

\* Line 38: c.strip().lower().replace(" ", "_").
normalize_column(c) == Replace(Lower(Strip(c)), " ", <<"_">>)

\* Line 43: astype(str).str.lower().str.strip() on one cell.
concepto_text(x) == Strip(Lower(PyStr(x)))

\* Lines 45-46.
comisiones_kw ==
    << <<"c", "o", "m", "i", "s", "i", "o", "n">>, <<"c", "a", "r", "g", "o">>, <<"m", "a", "n", "t", "e", "n", "i", "m", "i", "e", "n", "t", "o">>, <<"t", "a", "r", "i", "f", "a">>, <<"s", "e", "r", "v", "i", "c", "i", "o", " ", "b", "a", "n", "c", "a", "r", "i", "o">> >>

impuestos_kw ==
    << <<"i", "m", "p", "u", "e", "s", "t", "o">>, <<"i", "v", "a">>, <<"r", "e", "t", "e", "n", "c", "i", "o", "n">>, <<"r", "e", "t", "e", "n", "c", "i", "o'", "n">>, <<"p", "e", "r", "c">>, <<"p", "e", "r", "c", "e", "p", "c", "i", "o", "n">>,
       <<"l", "e", "y", " ", "2", "5", ".", "4", "1", "3">>, <<"c", "h", "e", "q", "u", "e">> >>

\* Lines 48-49.
es_comision(txt) == AnyIn(txt, comisiones_kw)

es_impuesto(txt) == AnyIn(txt, impuestos_kw)

\* df[name][r], for a header name of the normalised table.
AppAt(d, r, name) == d.rows[r][CHOOSE i \in 1..Len(d.cols) : d.cols[i] = name]

HasColumn(d, name) == \E i \in 1..Len(d.cols) : d.cols[i] = name

\* df["importe"] > 0 and df["importe"] < 0 raise TypeError when the column
\* holds text: a text cannot be compared with an integer.
importe_is_text(d) == \E r \in 1..Len(d.rows) : AppAt(d, r, <<"i", "m", "p", "o", "r", "t", "e">>).t \in {"str", "ts"}

\* The value of an importe cell that is a number; a missing cell is NaN, which
\* is neither above nor below zero.
importe_value(x) == IF x.t = "num" THEN x.v ELSE NaN

\* Lines 51-55 on one row: each assignment overwrites the label of the rows
\* its mask selects, in the order of the lines.
tipo_of(txt, v) ==
    LET t1 == "Sin Identificacion"
        t2 == IF es_comision(txt) THEN "Comision" ELSE t1
        t3 == IF es_impuesto(txt) THEN "Impuesto" ELSE t2
        t4 == IF ~v.nan /\ v.m > 0 THEN "Pago Recibido" ELSE t3
    IN  IF ~v.nan /\ v.m < 0 THEN "Pago Realizado" ELSE t4

\* The rows of the table with a label, in the order of the table (the boolean
\* mask of lines 57, 66, 75, 79 and 83).
rows_with(d, tipos, label) ==
    SelectSeq(Tup([r \in 1..Len(d.rows) |-> r]), LAMBDA r : tipos[r] = label)

\* Lines 57-64, 66-73: fecha, referencia, concepto and importe renamed, and an
\* empty tax id added.
pago_row(d, r) ==
    [ idx |-> r, fecha |-> AppAt(d, r, <<"f", "e", "c", "h", "a">>), referencia |-> AppAt(d, r, <<"r", "e", "f", "e", "r", "e", "n", "c", "i", "a">>),
      nombre |-> concepto_text(AppAt(d, r, <<"c", "o", "n", "c", "e", "p", "t", "o">>)), cuit |-> <<>>,
      importe |-> importe_value(AppAt(d, r, <<"i", "m", "p", "o", "r", "t", "e">>)) ]

\* Lines 75-81.
debito_row(d, r) ==
    [ idx |-> r, fecha |-> AppAt(d, r, <<"f", "e", "c", "h", "a">>), referencia |-> AppAt(d, r, <<"r", "e", "f", "e", "r", "e", "n", "c", "i", "a">>),
      detalle |-> concepto_text(AppAt(d, r, <<"c", "o", "n", "c", "e", "p", "t", "o">>)),
      importe |-> importe_value(AppAt(d, r, <<"i", "m", "p", "o", "r", "t", "e">>)) ]

\* Lines 83-86.
sin_identificar_row(d, r) ==
    [ idx |-> r, fecha |-> AppAt(d, r, <<"f", "e", "c", "h", "a">>), referencia |-> AppAt(d, r, <<"r", "e", "f", "e", "r", "e", "n", "c", "i", "a">>),
      detalle |-> <<"S", "i", "n", " ", "I", "d", "e", "n", "t", "i", "f", "i", "c", "a", "c", "i", "o", "n">>,
      importe |-> importe_value(AppAt(d, r, <<"i", "m", "p", "o", "r", "t", "e">>)) ]

\* The five tables of lines 57-86.
partition(d, tipos) ==
    LET sel(label, row(_, _)) ==
            LET w == rows_with(d, tipos, label) IN Tup([i \in 1..Len(w) |-> row(d, w[i])])
    IN  [ pagos_recibidos  |-> sel("Pago Recibido", pago_row),
          pagos_realizados |-> sel("Pago Realizado", pago_row),
          comisiones       |-> sel("Comision", debito_row),
          impuestos        |-> sel("Impuesto", debito_row),
          sin_identificar  |-> sel("Sin Identificacion", sin_identificar_row) ]

\* What the user may upload to src/app.py: date, reference, concept and
\* amount; a file the decoder rejects; tables without the expected columns;
\* a table whose amounts are text.
AppConceptos ==
    { StrCell(<<" ", "C", "o", "m", "i", "s", "i", "o", "n", " ", "m", "a", "n", "t", "e", "n", "i", "m", "i", "e", "n", "t", "o">>), StrCell(<<"P", "e", "r", "c", "e", "p", "c", "i", "o", "n", " ", "I", "V", "A">>), StrCell(<<"C", "a", "r", "g", "o", " ", "I", "V", "A">>),
      StrCell(<<"P", "a", "g", "o", " ", "f", "a", "c", "t", "u", "r", "a", " ", "1", "2", "3">>), NaNCell }

AppImportes == {NumCell(Dec(-50, 0)), NumCell(Dec(15005, 1)), NumCell(Zero), NaNCell}

AppTable(rows) ==
    [ cols |-> << <<"F", "e", "c", "h", "a">>, <<" ", "R", "e", "f", "e", "r", "e", "n", "c", "i", "a">>, <<"C", "O", "N", "C", "E", "P", "T", "O", " ">>, <<"I", "m", "p", "o", "r", "t", "e">> >>, rows |-> rows ]

AppRows(conceptos, importes) ==
    { << StrCell(<<"3", "1", "/", "0", "1", "/", "2", "0", "2", "4">>), StrCell(<<"A", "1">>), c, i >> : c \in conceptos, i \in importes }

AppTables(n) ==
    {AppTable(<<>>)}
        \cup {AppTable(<<row>>) : row \in AppRows(AppConceptos, AppImportes)}
        \cup UNION { {AppTable(rs) :
                        rs \in [1..k -> AppRows({StrCell(<<"C", "a", "r", "g", "o", " ", "I", "V", "A">>), StrCell(<<"P", "a", "g", "o", " ", "f", "a", "c", "t", "u", "r", "a", " ", "1", "2", "3">>)},
                                                {NumCell(Dec(-50, 0)), NumCell(Zero)})]} :
                     k \in 2..n }
        \cup { [ cols |-> << <<"C", "o", "n", "c", "e", "p", "t", "o">>, <<"I", "m", "p", "o", "r", "t", "e", " ", "T", "o", "t", "a", "l">> >>,
                 rows |-> << << StrCell(<<"C", "a", "r", "g", "o">>), NumCell(Dec(-50, 0)) >> >> ],
               [ cols |-> << <<"C", "o", "n", "c", "e", "p", "t", "o">>, <<"I", "m", "p", "o", "r", "t", "e">> >>,
                 rows |-> << << StrCell(<<"C", "a", "r", "g", "o">>), NumCell(Dec(-50, 0)) >> >> ],
               [ cols |-> << <<"F", "e", "c", "h", "a">>, <<"R", "e", "f", "e", "r", "e", "n", "c", "i", "a">>, <<"C", "o", "n", "c", "e", "p", "t", "o">>, <<"I", "m", "p", "o", "r", "t", "e">> >>,
                 rows |-> << << StrCell(<<"3", "1", "/", "0", "1", "/", "2", "0", "2", "4">>), StrCell(<<"A", "1">>), StrCell(<<"C", "a", "r", "g", "o">>),
                                StrCell(<<"-", "5", "0", ",", "0", "0">>) >> >> ] }

AppFiles(n) ==
    {[some |-> TRUE, ok |-> FALSE, table |-> EmptyDf]}
        \cup {[some |-> TRUE, ok |-> TRUE, table |-> t] : t \in AppTables(n)}

\* The page is opened, and the user uploads a file or none (line 20).
InitApp ==
    /\ app_pc = "uploader"
    /\ uploaded_file = NoFile
    /\ app_df = EmptyDf
    /\ app_tipo = <<>>
    /\ app_sheets = NoAppSheets
    /\ app_shown = NothingShown
    /\ IdleRun /\ IdleNum /\ IdleCols /\ IdleUI
    /\ pc = "idle" /\ session_state = EmptySession

\* Lines 20-22: the run finds the file the user chose, or none and ends.
AppFileUploader ==
    /\ app_pc = "uploader"
    /\ \E f \in AppFiles(MaxRows) \cup {NoFile} :
          /\ uploaded_file' = f
          /\ app_pc' = IF f.some THEN "read" ELSE "end"
    /\ UNCHANGED <<app_df, app_tipo, app_sheets, app_shown, numVars, colVars, uiVars,
                   procVars>>

\* Lines 23-35: the file is read and the success shown, or the error is shown
\* and st.stop() ends the run.
AppReadFile ==
    /\ app_pc = "read"
    /\ IF uploaded_file.ok
       THEN /\ app_df' = uploaded_file.table
            /\ app_shown' = [app_shown EXCEPT !.success = TRUE]
            /\ app_pc' = "columns"
       ELSE /\ app_df' = app_df
            /\ app_shown' = [app_shown EXCEPT !.error = TRUE]
            /\ app_pc' = "end"
    /\ UNCHANGED <<uploaded_file, app_tipo, app_sheets, numVars, colVars, uiVars, procVars>>

\* Lines 38-41: the headers are normalised; without "concepto" or "importe"
\* the error is shown and the run stops.
AppColumns ==
    /\ app_pc = "columns"
    /\ app_df' = [app_df EXCEPT
                    !.cols = Tup([i \in 1..Len(app_df.cols) |-> normalize_column(app_df.cols[i])])]
    /\ IF HasColumn(app_df', <<"c", "o", "n", "c", "e", "p", "t", "o">>) /\ HasColumn(app_df', <<"i", "m", "p", "o", "r", "t", "e">>)
       THEN app_pc' = "classify" /\ app_shown' = app_shown
       ELSE app_pc' = "end" /\ app_shown' = [app_shown EXCEPT !.error = TRUE]
    /\ UNCHANGED <<uploaded_file, app_tipo, app_sheets, numVars, colVars, uiVars, procVars>>

\* Lines 43-55: the label of each row; the comparison of a text amount with
\* zero raises TypeError and the run ends with the exception.
AppClassify ==
    /\ app_pc = "classify"
    /\ IF importe_is_text(app_df)
       THEN /\ app_tipo' = app_tipo
            /\ app_shown' = [app_shown EXCEPT !.exception = TRUE]
            /\ app_pc' = "end"
       ELSE /\ app_tipo' = Tup([r \in 1..Len(app_df.rows) |->
                               tipo_of(concepto_text(AppAt(app_df, r, <<"c", "o", "n", "c", "e", "p", "t", "o">>)),
                                       importe_value(AppAt(app_df, r, <<"i", "m", "p", "o", "r", "t", "e">>)))])
            /\ app_shown' = app_shown
            /\ app_pc' = "partition"
    /\ UNCHANGED <<uploaded_file, app_df, app_sheets, numVars, colVars, uiVars, procVars>>

\* Lines 57-86: the five tables; the selection of "fecha" and "referencia"
\* raises KeyError when the table has no such column.
AppPartition ==
    /\ app_pc = "partition"
    /\ IF HasColumn(app_df, <<"f", "e", "c", "h", "a">>) /\ HasColumn(app_df, <<"r", "e", "f", "e", "r", "e", "n", "c", "i", "a">>)
       THEN /\ app_sheets' = partition(app_df, app_tipo)
            /\ app_shown' = app_shown
            /\ app_pc' = "excel"
       ELSE /\ app_sheets' = app_sheets
            /\ app_shown' = [app_shown EXCEPT !.exception = TRUE]
            /\ app_pc' = "end"
    /\ UNCHANGED <<uploaded_file, app_df, app_tipo, numVars, colVars, uiVars, procVars>>

\* Lines 88-106: the workbook is written and the download button shown.
AppDownload ==
    /\ app_pc = "excel"
    /\ app_shown' = [app_shown EXCEPT !.download = TRUE]
    /\ app_pc' = "end"
    /\ UNCHANGED <<uploaded_file, app_df, app_tipo, app_sheets, numVars, colVars, uiVars,
                   procVars>>

NextApp ==
    \/ AppFileUploader \/ AppReadFile \/ AppColumns \/ AppClassify \/ AppPartition
    \/ AppDownload

SpecApp == InitApp /\ [][NextApp]_vars

\* ============================================================== properties

\* ------------------------------------------------ process_dataframe (SpecProc)

ProcDone == pc = "done"

\* The index labels of the rows of a sheet.
SheetRows(sh) == {sh[i].idx : i \in 1..Len(sh)}

\* How many rows of the five sheets come from input row r.
Occurrences(r) ==
    Cardinality({i \in 1..Len(sheets.sh1) : sheets.sh1[i].idx = r})
        + Cardinality({i \in 1..Len(sheets.sh2) : sheets.sh2[i].idx = r})
        + Cardinality({i \in 1..Len(sheets.sh3) : sheets.sh3[i].idx = r})
        + Cardinality({i \in 1..Len(sheets.sh4) : sheets.sh4[i].idx = r})
        + Cardinality({i \in 1..Len(sheets.sh5) : sheets.sh5[i].idx = r})

\* The lower-cased description of row r, as the classifier reads it.
DescriptionOf(r) ==
    Lower(PyStr(At(stripped(df), r, categorize_col(stripped(df), roles.ref, roles.detalle))))

MatchesFee(r) == AnyIn(DescriptionOf(r), kw_read.comisiones.v)

MatchesTax(r) == AnyIn(DescriptionOf(r), kw_read.impuestos.v)

\* The name and tax-id fields of row r, as texts.
NameOf(r) ==
    IF Truthy(roles.nombre) THEN PyStr(At(stripped(df), r, roles.nombre)) ELSE <<>>

TaxIdOf(r) ==
    IF Truthy(roles.cuit) THEN PyStr(At(stripped(df), r, roles.cuit)) ELSE <<>>

Blank(t) == \A i \in 1..Len(t) : t[i] = " "

\* C1: every input row appears in exactly one of the five sheets, so the
\* sheets' row counts sum to the input row count.
C1_PartitionTotal ==
    (ProcDone /\ sheets.ok) =>
        /\ Len(sheets.sh1) + Len(sheets.sh2) + Len(sheets.sh3) + Len(sheets.sh4)
              + Len(sheets.sh5) = NRows(df)
        /\ \A r \in 1..NRows(df) : Occurrences(r) = 1

\* C2: a row whose description contains a fee keyword and a tax keyword is in
\* sheet 3 and not in sheet 4.
C2_FeeBeforeTax ==
    (ProcDone /\ sheets.ok) =>
        \A r \in 1..NRows(df) :
            (MatchesFee(r) /\ MatchesTax(r)) =>
                r \in SheetRows(sheets.sh3) /\ r \notin SheetRows(sheets.sh4)

\* C3: a row with no fee or tax keyword, direction "in" or "out" and blank name
\* and tax id is in sheet 5 and in neither sheet 1 nor sheet 2.
C3_EmptyCounterpartyForced ==
    (ProcDone /\ sheets.ok) =>
        \A r \in 1..NRows(df) :
            ( /\ ~MatchesFee(r) /\ ~MatchesTax(r)
              /\ direction[r] \in {"in", "out"}
              /\ Blank(NameOf(r)) /\ Blank(TaxIdOf(r)) ) =>
                /\ r \in SheetRows(sheets.sh5)
                /\ r \notin SheetRows(sheets.sh1)
                /\ r \notin SheetRows(sheets.sh2)

\* The lower-cased type text of row r, when a type column is resolved.
TypeTextOf(r) == Lower(PyStr(At(stripped(df), r, roles.tipo)))

SignOf(r) ==
    IF importe[r].m > 0 THEN "in" ELSE IF importe[r].m < 0 THEN "out" ELSE "zero"

\* C6: with a type column a row's direction is "in" when its type text holds an
\* in-keyword and "out" when it holds an out-keyword and no in-keyword, whatever
\* the sign of the amount; a row whose type text holds neither, and every row
\* when no type column is resolved, has the direction of the amount's sign.
C6_DirectionOverride ==
    ProcDone =>
        \A r \in 1..NRows(df) :
            IF roles.tipo.some /\ AnyIn(TypeTextOf(r), in_keywords)
            THEN direction[r] = "in"
            ELSE IF roles.tipo.some /\ AnyIn(TypeTextOf(r), out_keywords)
            THEN direction[r] = "out"
            ELSE direction[r] = SignOf(r)

\* An in-keyword in the type text wins over a negative amount.
C6_Witness ==
    /\ ProcDone
    /\ roles.tipo.some
    /\ \E r \in 1..NRows(df) :
          /\ AnyIn(TypeTextOf(r), in_keywords)
          /\ importe[r].m < 0
          /\ direction[r] = "in"

\* No header of the table has the slug of any candidate of any role.
NothingResolves ==
    \A i \in 1..Len(df.cols) : \A role \in RoleNames : \A k \in 1..Len(Cands(role)) :
        _slug(Strip(df.cols[i])) # Cands(role)[k]

NumDone(s) == num_pc = "done" /\ num_in = StrCell(s)

\* float(s), or 0.0 when s is no number.
ValueOf(s) == IF PyFloat(s).ok THEN PyFloat(s).v ELSE Zero

WithoutChar(s, ch) == SelectSeq(s, LAMBDA c : c # ch)

CommaAsThousands(s) == ValueOf(WithoutChar(s, ","))

CommaAsDecimal(s) ==
    LET t == WithoutChar(s, ".")
    IN  ValueOf([i \in 1..Len(t) |-> IF t[i] = "," THEN "." ELSE t[i]])

\* s is an integer grouped in thousands: digits, then groups of a comma and
\* exactly three digits, and no dot (a leading sign is allowed).
GroupedInteger(s) ==
    LET b == IF s # <<>> /\ s[1] \in {"-", "+"} THEN Tail(s) ELSE s
    IN  /\ b # <<>> /\ IsDigit(b[1])
        /\ \E i \in 1..Len(b) : b[i] = ","
        /\ \A i \in 1..Len(b) :
              \/ IsDigit(b[i])
              \/ /\ b[i] = ","
                 /\ i + 3 <= Len(b)
                 /\ IsDigit(b[i + 1]) /\ IsDigit(b[i + 2]) /\ IsDigit(b[i + 3])
                 /\ (i + 3 = Len(b) \/ b[i + 4] = ",")

\* s holds, anywhere, a digit, a comma and three digits, and holds no dot.
LooselyGrouped(s) ==
    /\ \A i \in 1..Len(s) : s[i] # "."
    /\ \E i \in 1..(Len(s) - 4) :
          /\ IsDigit(s[i]) /\ s[i + 1] = ","
          /\ \A j \in (i + 2)..(i + 4) : IsDigit(s[j])

\* C4: the text cell "1,234.56" (comma thousands, dot decimal) parses to 1234.56.
C4_UsFormat == NumDone(<<"1", ",", "2", "3", "4", ".", "5", "6">>) => num_out = Dec(123456, 2)

\* C5 as stated: for a text cell without its spaces, the comma is a thousands
\* separator only when the text is a thousands-grouped integer with no dot;
\* for every other text the dots are removed and the comma is the decimal point.
C5_GroupedIntegerOnly ==
    (num_pc = "done" /\ num_in.t = "str") =>
        LET s == WithoutChar(num_in.s, " ")
        IN  num_out = IF GroupedInteger(s) THEN CommaAsThousands(s) ELSE CommaAsDecimal(s)

\* C5 as amended: the commas are removed whenever the text, without its
\* spaces, holds no dot and holds anywhere a digit, a comma and three digits
\* ("12,3456" is 123456.0, "1,234,56" is 123456.0); for every other text the
\* dots are removed and the comma is the decimal point.
C5_SeparatorRule ==
    (num_pc = "done" /\ num_in.t = "str") =>
        LET s == WithoutChar(num_in.s, " ")
        IN  num_out = IF LooselyGrouped(s) THEN CommaAsThousands(s) ELSE CommaAsDecimal(s)

\* "12,3456" has been parsed to 123456.0 and "1.234,56" would be 1234.56.
C5_Witness ==
    /\ NumDone(<<"1", "2", ",", "3", "4", "5", "6">>)
    /\ num_out = Dec(123456, 0)
    /\ _to_number(StrCell(<<"1", ".", "2", "3", "4", ",", "5", "6">>)) = Dec(123456, 2)
    /\ _to_number(StrCell(<<"1", ",", "2", "3", "4", ",", "5", "6", "7">>)) = Dec(1234567, 0)

\* ---------------------------------------------------- guess_columns (SpecCols)

\* The places in a role's candidate list that some header's slug matches.
Matched(role, cols) ==
    {k \in 1..Len(Cands(role)) : \E i \in 1..Len(cols) : _slug(cols[i]) = Cands(role)[k]}

\* The winning candidate of a role: the earliest matched one.
Winner(role, cols) == Cands(role)[SetMin(Matched(role, cols))]

\* The columns whose header has the given slug.
ColumnsOf(slug, cols) == {i \in 1..Len(cols) : _slug(cols[i]) = slug}

ColsGuessed == col_pc \in {"again", "done"}

\* C9 as stated: each role resolves to the first header, in column order, whose
\* slug is the winning candidate.
C9_FirstHeaderWins ==
    ColsGuessed =>
        \A role \in RoleNames :
            Matched(role, col_headers) # {} =>
                col_roles[role] =
                    Some(col_headers[SetMin(ColumnsOf(Winner(role, col_headers), col_headers))])

\* C9 as amended: each role resolves to exactly one header, the last one in
\* column order whose slug is the winning candidate; of "Fecha" and "FECHA"
\* the later header is resolved.
C9_LastHeaderWins ==
    ColsGuessed =>
        \A role \in RoleNames :
            Matched(role, col_headers) # {} =>
                col_roles[role] =
                    Some(col_headers[SetMax(ColumnsOf(Winner(role, col_headers), col_headers))])

\* "Fecha" then "FECHA": the date role is resolved to "FECHA".
C9_Witness ==
    /\ ColsGuessed
    /\ col_headers = << <<"F", "e", "c", "h", "a">>, <<"F", "E", "C", "H", "A">> >>
    /\ col_roles.fecha = Some(<<"F", "E", "C", "H", "A">>)

C8_KeywordSnapshot ==
    /\ kw_read.comisiones.set => kw_read.comisiones.v = parse_keywords(kw_input.comisiones)
    /\ kw_read.impuestos.set => kw_read.impuestos.v = parse_keywords(kw_input.impuestos)

\* Both lists are read, and the user has changed both inputs during the run.
C8_Witness ==
    /\ pc = "build"
    /\ kw_read.comisiones.set /\ kw_read.impuestos.set
    /\ rerun
    /\ widget.comisiones # kw_input.comisiones
    /\ widget.impuestos # kw_input.impuestos

\* -------------------------------------------- build_output_sheets, the sort

\* Rows i < j of a sheet are in the order of (date, reference), a missing date
\* after every date, and rows equal in both in the order of the input.
InOrder(sh, date_col) ==
    \A i, j \in 1..Len(sh) :
        i < j =>
            LET a == sh[i]
                b == sh[j]
            IN  /\ a[date_col].nat => b[date_col].nat
                /\ (~a[date_col].nat /\ ~b[date_col].nat) => a[date_col].ymd <= b[date_col].ymd
                /\ a[date_col] = b[date_col] => ~TextLess(b.referencia, a.referencia)
                /\ (a[date_col] = b[date_col] /\ a.referencia = b.referencia) => a.idx < b.idx

\* C11: every sheet build_output_sheets returns is sorted by date ascending then
\* reference ascending, the rows with a null date after all rows with a date,
\* and rows with the same date and reference in their input order.
C11_SheetOrdering ==
    (ProcDone /\ sheets.ok) =>
        /\ InOrder(sheets.sh1, "fecha_de_recepcion")
        /\ InOrder(sheets.sh2, "fecha_de_pago")
        /\ InOrder(sheets.sh3, "fecha_del_debito")
        /\ InOrder(sheets.sh4, "fecha_del_debito")
        /\ InOrder(sheets.sh5, "fecha_del_debito")

\* Sheet 1 holds two rows, the second input row first: the sort has moved a
\* row with a date before a row with none.
C11_Witness ==
    /\ ProcDone /\ sheets.ok
    /\ Len(sheets.sh1) = 2
    /\ sheets.sh1[1].idx = 2 /\ sheets.sh1[2].idx = 1
    /\ ~sheets.sh1[1].fecha_de_recepcion.nat
    /\ sheets.sh1[2].fecha_de_recepcion.nat

\* ------------------------------------- detect_direction_and_amount, amounts

\* The parsed cell of row r in the column resolved for a role.
ParsedCell(r, role) == _to_number(At(stripped(df), r, roles[role]))

\* C12: with a credit and a debit column resolved the amount of a row is its
\* parsed credit minus its parsed debit, an amount column or not; otherwise
\* with an amount column resolved it is the parsed amount; otherwise, one of
\* credit and debit resolved or none, it is 0.0.
C12_AmountPrecedence ==
    ProcDone =>
        \A r \in 1..NRows(df) :
            importe[r] =
                IF roles.credito.some /\ roles.debito.some
                THEN DecSub(ParsedCell(r, "credito"), ParsedCell(r, "debito"))
                ELSE IF roles.importe.some THEN ParsedCell(r, "importe")
                ELSE Zero

\* Credit, debit and amount columns are all resolved, and the amount of the
\* row is credit minus debit, 30.0 - 10.0, not the amount column's 100.0.
C12_Witness ==
    /\ ProcDone
    /\ roles.credito.some /\ roles.debito.some /\ roles.importe.some
    /\ NRows(df) = 1
    /\ ParsedCell(1, "importe") = Dec(100, 0)
    /\ importe[1] = Dec(20, 0)

\* ------------------------------------------ _to_number and _to_datetime, errors

\* The text of a cell as float() is given it: without spaces, separators done.
FloatText(x) == separators(WithoutChar(x.s, " "))

\* v is the day of a calendar date.
IsDay(v) == ValidDate(v \div 10000, (v \div 100) % 100, v % 100)

Classifying == pc \in {"process", "read_comisiones", "read_impuestos", "build", "excel"}

\* C14: when the read of the uploaded file fails the run shows the error and
\* stops: process_dataframe and to_excel_bytes do not run in it and no
\* download is offered; and a run is in process_dataframe or beyond, or offers
\* a download, only after its read has succeeded.
C14_DecodeFailureFatal ==
    /\ shown.error =>
          /\ pc = "end"
          /\ ~shown.success /\ ~shown.download
          /\ roles = NoRoles /\ importe = <<>> /\ direction = <<>>
          /\ kw_read = NoKw /\ sheets = NoSheets
    /\ (Classifying \/ shown.download \/ shown.exception) =>
          /\ shown.success /\ ~shown.error

\* A run has read a file the decoder rejects: the error is shown, the run is
\* at its end.
C14_Witness ==
    /\ shown.error /\ pc = "end"
    /\ uploaded.some /\ ~uploaded.ok

\* ------------------------------------------- guess_columns, the description

\* The description role guess_columns must give the headers cols, given the
\* reference role it resolved, when no header matches a description candidate.
DescriptionFallback(cols, ref) ==
    IF ref.some THEN ref
    ELSE IF Len(cols) > 0 THEN Some(cols[1])
    ELSE None

\* C15: when no header matches a description candidate the description role
\* is the resolved reference header if there is one, else the first column in
\* the order of the table; so it is resolved whenever the table has a column.
C15_DescriptionFallback ==
    /\ ColsGuessed =>
          /\ Matched("detalle", col_headers) = {} =>
                col_roles.detalle = DescriptionFallback(col_headers, col_roles.ref)
          /\ Len(col_headers) > 0 => col_roles.detalle.some
          /\ Len(col_headers) = 0 => col_roles.detalle = None
    /\ col_pc = "done" =>
          /\ Matched("detalle", col_headers2) = {} =>
                col_roles2.detalle = DescriptionFallback(col_headers2, col_roles2.ref)
          /\ Len(col_headers2) > 0 => col_roles2.detalle.some

\* No header is a description candidate; "Nro. Operacion" resolves the
\* reference and stands in for the description though "xyz" is the first
\* column, and in the table of "xyz" and "Fecha" the first column would.
C15_Witness ==
    /\ ColsGuessed
    /\ col_headers = << <<"x", "y", "z">>, <<"N", "r", "o", ".", " ", "O", "p", "e", "r", "a", "c", "i", "o'", "n">> >>
    /\ Matched("detalle", col_headers) = {}
    /\ col_roles.ref = Some(<<"N", "r", "o", ".", " ", "O", "p", "e", "r", "a", "c", "i", "o'", "n">>)
    /\ col_roles.detalle = Some(<<"N", "r", "o", ".", " ", "O", "p", "e", "r", "a", "c", "i", "o'", "n">>)
    /\ guess_columns(<< <<"x", "y", "z">>, <<"F", "e", "c", "h", "a">> >>).detalle = Some(<<"x", "y", "z">>)

\* --------------------------------------------------- the emitter, the widths

SheetNo(k) ==
    CASE k = 1 -> sheets.sh1 [] k = 2 -> sheets.sh2 [] k = 3 -> sheets.sh3
      [] k = 4 -> sheets.sh4 [] k = 5 -> sheets.sh5

SheetColumns(k) ==
    CASE k = 1 -> sh1_columns [] k = 2 -> sh2_columns [] OTHER -> sh345_columns

IsDateColumn(c) == c.name \in {"fecha_de_recepcion", "fecha_de_pago", "fecha_del_debito"}

IsMoneyColumn(c) == c.name \in {"importe_recibido", "importe_pagado", "importe_debitado"}

\* min(max(header length, longest of the first 1000 values as text) + 2, 60).
AutoWidth(sh, c) ==
    LET lens == {Len(c.header)} \cup
                {Len(astype_str(sh[r][c.name], c.name)) : r \in 1..Len(sh) \cap 1..1000}
        longest == CHOOSE n \in lens : \A o \in lens : o <= n
    IN  IF longest + 2 <= 60 THEN longest + 2 ELSE 60

Written == pc = "written"

\* C16 as stated: after the emitter has finished a sheet the width of every
\* column, the date and money columns included, is
\* min(max(header length, longest text of the first 1000 values) + 2, 60).
C16_EveryColumnAutosized ==
    Written =>
        \A k \in 1..5 : \A i \in 1..Len(SheetColumns(k)) :
            widths[k][i] = AutoWidth(SheetNo(k), SheetColumns(k)[i])

\* C16 as amended: after the emitter has finished a sheet the date column has
\* width 12, the money column has width 14, and every other column has width
\* min(max(header length, longest text of the first 1000 values) + 2, 60).
C16_WidthsAfterFormats ==
    Written =>
        \A k \in 1..5 :
            /\ Len(widths[k]) = Len(SheetColumns(k))
            /\ \A i \in 1..Len(SheetColumns(k)) :
                  widths[k][i] =
                      IF IsMoneyColumn(SheetColumns(k)[i]) THEN 14
                      ELSE IF IsDateColumn(SheetColumns(k)[i]) THEN 12
                      ELSE AutoWidth(SheetNo(k), SheetColumns(k)[i])

\* Sheet 1 holds a row with a name of 63 characters: the name column is at
\* the cap of 60, the reference column at header length + 2, the date column
\* at 12 and the money column at 14.
C16_Witness ==
    /\ Written
    /\ Len(sheets.sh1) = 1
    /\ Len(sheets.sh1[1].nombre_del_pagador) = 63
    /\ widths[1] = <<12, 12, 60, 18, 14>>

\* -------------------------------------------------- the scenario, end to end

\* The table of the scenario, its empty cells empty texts or missing values,
\* processed with the default keywords: those of categorize_rows, or those of
\* the default texts of the page.
ScenarioDone ==
    /\ ProcDone
    /\ df \in {ScenarioTable, ScenarioTableNaN}
    /\ session_state \in {EmptySession, DefaultSession}

\* C17: for the table with headers detalle, importe, nombre, cuit and the rows
\* ("Comision mantenimiento", "-50,00", empty, empty) and ("Pago factura 123",
\* "1.500,00", "Acme SA", "30-1-1"), with the default keywords, the first row
\* is in sheet 3 with importe_debitado -50.0 and in no other sheet, and the
\* second is in sheet 1 with importe_recibido 1500.0 and nombre_del_pagador
\* "Acme SA" and in no other sheet.
C17_Scenario ==
    ScenarioDone =>
        /\ sheets.ok
        /\ Len(sheets.sh3) = 1
        /\ sheets.sh3[1].idx = 1
        /\ sheets.sh3[1].importe_debitado = Dec(-50, 0)
        /\ sheets.sh3[1].detalle = <<"C", "o", "m", "i", "s", "i", "o", "n", " ", "m", "a", "n", "t", "e", "n", "i", "m", "i", "e", "n", "t", "o">>
        /\ Len(sheets.sh1) = 1
        /\ sheets.sh1[1].idx = 2
        /\ sheets.sh1[1].importe_recibido = Dec(1500, 0)
        /\ sheets.sh1[1].nombre_del_pagador = <<"A", "c", "m", "e", " ", "S", "A">>
        /\ sheets.sh1[1].cuit_del_pagador = <<"3", "0", "-", "1", "-", "1">>
        /\ sheets.sh2 = <<>> /\ sheets.sh4 = <<>> /\ sheets.sh5 = <<>>

\* The scenario has been processed with the keywords of the page's default
\* texts: the fee row is in sheet 3, the payment in sheet 1.
C17_Witness ==
    /\ ProcDone
    /\ df = ScenarioTableNaN
    /\ session_state = DefaultSession
    /\ SheetRows(sheets.sh3) = {1}
    /\ SheetRows(sheets.sh1) = {2}
    /\ direction = <<"out", "in">>


\* ------------------------------------------------------------------- C18

\* src/app.py has written its five tables.
Partitioned == app_pc = "excel" \/ app_shown.download

AppConcepto(r) == concepto_text(AppAt(app_df, r, <<"c", "o", "n", "c", "e", "p", "t", "o">>))

AppImporte(r) == importe_value(AppAt(app_df, r, <<"i", "m", "p", "o", "r", "t", "e">>))

\* The rows of the uploaded table that one of the five tables holds.
AppSheetRows(name) == {app_sheets[name][i].idx : i \in 1..Len(app_sheets[name])}

\* C18: once src/app.py has partitioned the table, a row whose concepto holds
\* a fee or tax keyword is labelled Comision or Impuesto and is in the third or
\* fourth table whatever the sign of its importe, and only a row with no
\* keyword is labelled by the sign of its importe.
C18_KeywordPriority ==
    Partitioned =>
        \A r \in 1..Len(app_df.rows) :
            IF es_comision(AppConcepto(r)) \/ es_impuesto(AppConcepto(r))
            THEN /\ app_tipo[r] \in {"Comision", "Impuesto"}
                 /\ r \in AppSheetRows("comisiones") \cup AppSheetRows("impuestos")
            ELSE app_tipo[r] =
                    IF ~AppImporte(r).nan /\ AppImporte(r).m > 0 THEN "Pago Recibido"
                    ELSE IF ~AppImporte(r).nan /\ AppImporte(r).m < 0 THEN "Pago Realizado"
                    ELSE "Sin Identificacion"

\* ------------------------------------------------------------------- C19

\* The type text of a row holds a keyword of the in group and one of the out
\* group.
BothGroups(r) ==
    /\ roles.tipo.some
    /\ AnyIn(TypeTextOf(r), in_keywords)
    /\ AnyIn(TypeTextOf(r), out_keywords)

\* C19: a row whose lower-cased type text holds a keyword of the in group and a
\* keyword of the out group has direction "in", never "out", whatever the sign
\* of its amount: the in group is tested first.
C19_InGroupFirst ==
    ProcDone => \A r \in 1..NRows(df) : BothGroups(r) => direction[r] = "in"

\* A type text of both groups ("pago credito", "cheque depositado") on a row
\* with a negative amount: the direction is "in".
C19_Witness ==
    /\ ProcDone
    /\ \E r \in 1..NRows(df) :
          /\ BothGroups(r)
          /\ importe[r].m < 0 /\ SignOf(r) = "out"
          /\ direction[r] = "in"
====
